---- MODULE Spec2Model ----
(***************************************************************************)
(* Byte-level model of txp_parser.py: the Reader cursor (position,         *)
(* endianness, base-offset stack), the SubTexture / Texture / TextureSet / *)
(* SpriteSet decoders and the FARC archive reader.                         *)
(*                                                                         *)
(* A buffer is a sequence of bytes (0..255).  A decoder is an operator     *)
(* taking the file and the Reader state and returning                      *)
(*     [r |-> Reader state at exit, exc |-> exception or "none",           *)
(*      val |-> object as built so far]                                    *)
(* so that an exception raised in a nested decoder propagates with the     *)
(* Reader left exactly as the Python code leaves it.                       *)
(***************************************************************************)
EXTENDS Integers, Sequences, FiniteSets, TLC

VARIABLES
    buf,         \* contents of the file object f (sequence of bytes)
    fkind,       \* "BytesIO" or "BufferedReader": the file object handed to Reader
    pos,         \* f.tell()
    endian,      \* Reader.endian: "<" or ">"
    base_stack,  \* Reader.base_stack
    op,          \* last operation performed ("init" after construction)
    entry,       \* Reader state when the last parse call was entered
    exc,         \* exception the last parse call raised, "none" if it returned
    obj,         \* object the last parse call built (as far as it got)
    arg,         \* argument of the last parse call (texture_names_offset)
    archive,     \* FarcArchive state after the last FarcArchive.parse
    scan,        \* recovery scan of parse_txd: hits left, attempts made, found_any
    export       \* export_sprites_to_png: texture_images and the sprites handled

vars ==
    <<buf, fkind, pos, endian, base_stack, op, entry, exc, obj, arg, archive, scan,
      export>>

----------------------------------------------------------------------------
(* Program constants *)

TXP_TEXSET_SIG == 55597140
TXP_TEXTURE_SIG_V4 == 72374356
TXP_TEXTURE_SIG_V5 == 89151572
TXP_SUBTEXTURE_SIG == 38819924
TXP_SPRITESET_SIG == 0

----------------------------------------------------------------------------
(* Arithmetic helpers *)

Min(a, b) == IF a < b THEN a ELSE b
Max(a, b) == IF a > b THEN a ELSE b

\* Every unsigned 32-bit value at or above Far is represented by Far itself:
\* such a value is only ever used as a file position, and every position at
\* or beyond the end of the buffer behaves alike (reads return no bytes).
Far == 2^28

None == [kind |-> "None"]

----------------------------------------------------------------------------
(* struct.unpack *)

\* the four bytes in most-significant-first order for the given byte order
MsbFirst(w, e) == IF e = "<" THEN <<w[4], w[3], w[2], w[1]>> ELSE w

\* the signed 32-bit value of four bytes, most significant first
Signed32(m) ==
    (IF m[1] >= 128 THEN m[1] - 256 ELSE m[1]) * 16777216
        + m[2] * 65536 + m[3] * 256 + m[4]

\* the unsigned 32-bit value of four bytes, most significant first,
\* saturated at Far
Unsigned32(m) ==
    IF m[1] >= 16 THEN Far
    ELSE m[1] * 16777216 + m[2] * 65536 + m[3] * 256 + m[4]

\* struct.unpack(e + 'i', w)[0]
UnpackI32(w, e) == Signed32(MsbFirst(w, e))

\* struct.unpack(e + 'I', w)[0]
UnpackU32(w, e) == Unsigned32(MsbFirst(w, e))

----------------------------------------------------------------------------
(* The file object *)

\* where f.read(n) at position p stops: a negative n reads to the end
ReadStop(b, p, n) == IF n < 0 THEN Len(b) ELSE Min(p + n, Len(b))

\* f.read(n): the bytes returned and the position afterwards.  A
\* BufferedReader rejects n < -1.
fread(b, kind, p, n) ==
    IF n < -1 /\ kind = "BufferedReader"
    THEN [exc |-> "ValueError", data |-> <<>>, pos |-> p]
    ELSE IF p >= Len(b)
    THEN [exc |-> "none", data |-> <<>>, pos |-> p]
    ELSE [exc |-> "none", data |-> SubSeq(b, p + 1, ReadStop(b, p, n)),
          pos |-> ReadStop(b, p, n)]

\* bytes.decode('utf-8', errors=...) on one byte: ASCII maps to its code
\* point; any other byte is not decoded here and maps to U+FFFD.
DecodeByte(c) == IF c < 128 THEN c ELSE 65533

RECURSIVE CStringFrom(_, _, _)
CStringFrom(b, p, acc) ==
    IF p >= Len(b) THEN [s |-> acc, pos |-> p]
    ELSE IF b[p + 1] = 0 THEN [s |-> acc, pos |-> p + 1]
    ELSE CStringFrom(b, p + 1, Append(acc, DecodeByte(b[p + 1])))

\* read_cstring(f): bytes up to a NUL (consumed) or the end of the file
read_cstring(b, p) == CStringFrom(b, p, <<>>)

----------------------------------------------------------------------------
(* Reader *)

Ok(r, v) == [r |-> r, exc |-> "none", val |-> v]
Raise(r, e, v) == [r |-> r, exc |-> e, val |-> v]

\* K applied to the value of x, which is computed once
Bind(x, K(_)) == CHOOSE y \in {K(v) : v \in {x}} : TRUE

\* x, then K on its result; if x raised, the exception propagates with the
\* object as built so far
Try(x, partial, K(_)) ==
    Bind(x, LAMBDA v : IF v.exc # "none" THEN Raise(v.r, v.exc, partial) ELSE K(v))

Str(s) == [kind |-> "str", s |-> s]

\* Reader.__init__
NewReader == [pos |-> 0, endian |-> "<", base_stack |-> <<0>>]

seek(r, p) == [r EXCEPT !.pos = p]

push_base(r, offset) == [r EXCEPT !.base_stack = Append(@, offset)]

pop_base(r) == [r EXCEPT !.base_stack = SubSeq(@, 1, Len(@) - 1)]

\* Reader.base (callers check the stack is not empty)
base(r) == r.base_stack[Len(r.base_stack)]

set_endian(r, little) == [r EXCEPT !.endian = IF little THEN "<" ELSE ">"]

\* Reader.read_fmt for the 4-byte formats; signed selects 'i' or 'I'/'f'
read_fmt(f, r, signed) ==
    Bind(fread(f.b, f.kind, r.pos, 4), LAMBDA got :
    IF Len(got.data) # 4
    THEN Raise(seek(r, got.pos), "EOFError", None)
    ELSE Ok(seek(r, got.pos), IF signed THEN UnpackI32(got.data, r.endian)
                              ELSE UnpackU32(got.data, r.endian)))

read_int32(f, r) == read_fmt(f, r, TRUE)

read_uint32(f, r) == read_fmt(f, r, FALSE)

\* the IEEE-754 bit pattern of the float read (as a signed word)
read_float(f, r) == read_fmt(f, r, TRUE)

read_offset(f, r) == read_uint32(f, r)

read_bytes(f, r, n) ==
    Bind(fread(f.b, f.kind, r.pos, n), LAMBDA got :
    IF got.exc # "none" THEN Raise(r, got.exc, <<>>)
    ELSE Ok(seek(r, got.pos), got.data))

----------------------------------------------------------------------------
(* SubTexture *)

SubTexture(width, height, format, id, data) ==
    [kind |-> "SubTexture", width |-> width, height |-> height, format |-> format,
     id |-> id, data |-> data]

NewSubTexture == SubTexture(0, 0, 0, 0, <<>>)

\* ReadSignature with the retry of TextureSet.read: on a mismatch the other
\* byte order is tried on the same four bytes
ReadSignature_Retry(f, r, accepted) ==
    Try(read_int32(f, r), None, LAMBDA sig :
    IF sig.val \in accepted THEN Ok(sig.r, sig.val)
    ELSE
    Try(read_int32(f, seek(set_endian(sig.r, sig.r.endian = ">"), r.pos)), None,
        LAMBDA again :
    IF again.val \notin accepted THEN Raise(again.r, "ValueError", None)
    ELSE Ok(again.r, again.val)))

\* sig = r.read_int32(); if sig is not an accepted constant: raise ValueError
ReadSignature(f, r, accepted) ==
    Try(read_int32(f, r), None, LAMBDA sig :
    IF sig.val \notin accepted THEN Raise(sig.r, "ValueError", None)
    ELSE Ok(sig.r, sig.val))

SubTexture_read(f, r) ==
    Try(ReadSignature(f, r, {TXP_SUBTEXTURE_SIG}), NewSubTexture, LAMBDA sig :
    Try(read_int32(f, sig.r), NewSubTexture, LAMBDA width :
    Try(read_int32(f, width.r), SubTexture(width.val, 0, 0, 0, <<>>), LAMBDA height :
    Try(read_int32(f, height.r), SubTexture(width.val, height.val, 0, 0, <<>>),
        LAMBDA format :
    Try(read_int32(f, format.r),
        SubTexture(width.val, height.val, format.val, 0, <<>>), LAMBDA id :
    Try(read_int32(f, id.r),
        SubTexture(width.val, height.val, format.val, id.val, <<>>), LAMBDA data_size :
    Try(read_bytes(f, data_size.r, data_size.val),
        SubTexture(width.val, height.val, format.val, id.val, <<>>), LAMBDA data :
    Ok(data.r, SubTexture(width.val, height.val, format.val, id.val, data.val)))))))))

----------------------------------------------------------------------------
(* Texture *)

\* array_size and mip_count are set by read (0: not set).  subtextures holds
\* the grid cells in row-major order, as far as the offset loop got; every
\* cell after those is still None.
Texture(array_size, mip_count, subtextures) ==
    [kind |-> "Texture", array_size |-> array_size, mip_count |-> mip_count,
     subtextures |-> subtextures, name |-> None]

NewTexture == Texture(0, 0, <<>>)

\* the loop over (i, j) of Texture.read, from cell (i, j) on
RECURSIVE TextureCells(_, _, _, _, _, _, _)
TextureCells(f, r, array_size, mip_count, i, j, cells) ==
    IF i >= array_size THEN Ok(r, cells)
    ELSE IF j >= mip_count
    THEN TextureCells(f, r, array_size, mip_count, i + 1, 0, cells)
    ELSE
    Try(read_offset(f, r), cells, LAMBDA offset :
    IF offset.val = 0
    THEN TextureCells(f, offset.r, array_size, mip_count, i, j + 1,
                      Append(cells, None))
    ELSE
    Try(SubTexture_read(f, seek(offset.r, base(offset.r) + offset.val)), cells,
        LAMBDA st :
    TextureCells(f, seek(st.r, offset.r.pos), array_size, mip_count, i, j + 1,
                 Append(cells, st.val))))

\* CorrectedMipCount without the correction: the declared mip_count is kept
CorrectedMipCount_Declared(array_size, mip_count, subcount) == mip_count

\* mip_count after the subcount correction of Texture.read
CorrectedMipCount(array_size, mip_count, subcount) ==
    IF array_size = 1 /\ mip_count # subcount THEN subcount ELSE mip_count

\* the floor applied to both grid dimensions
GridDim(n) == Max(1, n)

\* TextureBase without the push: offsets resolve against the caller's base
TextureBase_Caller(r) == IF Len(r.base_stack) = 0 THEN 0 ELSE base(r)

\* the base a Texture resolves its offsets against
TextureBase(r) == r.pos

\* the grid of Texture.read: its dimensions, then the offset loop
TextureGrid(f, r, array_size, mip_count) ==
    Bind(TextureCells(f, r, array_size, mip_count, 0, 0, <<>>), LAMBDA cells :
    IF cells.exc # "none"
    THEN Raise(cells.r, cells.exc, Texture(array_size, mip_count, cells.val))
    ELSE Ok(pop_base(cells.r), Texture(array_size, mip_count, cells.val)))

Texture_read(f, r) ==
    Bind(ReadSignature(f, push_base(r, TextureBase(r)),
                       {TXP_TEXTURE_SIG_V4, TXP_TEXTURE_SIG_V5}), LAMBDA sig :
    IF sig.exc = "ValueError" THEN Raise(pop_base(sig.r), "ValueError", NewTexture)
    ELSE
    Try(sig, NewTexture, LAMBDA sig_ok :
    Try(read_int32(f, sig_ok.r), NewTexture, LAMBDA subcount :
    Try(read_int32(f, subcount.r), NewTexture, LAMBDA info :
    TextureGrid(f, info.r, GridDim((info.val \div 256) % 256),
                GridDim(CorrectedMipCount((info.val \div 256) % 256,
                                          info.val % 256, subcount.val)))))))

\* self.subtextures[i][j] (0-based) of a Texture
Cell(tex, i, j) ==
    LET k == i * tex.mip_count + j + 1
    IN  IF k <= Len(tex.subtextures) THEN tex.subtextures[k] ELSE None

----------------------------------------------------------------------------
(* TextureSet *)

TextureSet(textures, texture_names) ==
    [kind |-> "TextureSet", textures |-> textures, texture_names |-> texture_names]

NewTextureSet == TextureSet(<<>>, <<>>)

\* [r.read_offset() for _ in range(n)]
RECURSIVE ReadOffsets(_, _, _, _)
ReadOffsets(f, r, n, acc) ==
    IF n <= 0 THEN Ok(r, acc)
    ELSE Try(read_offset(f, r), acc, LAMBDA o :
         ReadOffsets(f, o.r, n - 1, Append(acc, o.val)))

\* self.textures.append(tex), for the Texture decoded from entry k of the
\* offset table
AppendTexture(textures, k, tex) == Append(textures, tex)

\* for off in offsets: ..., from entry k (1-based) on
RECURSIVE TextureSetTextures(_, _, _, _, _)
TextureSetTextures(f, r, offsets, k, textures) ==
    IF k > Len(offsets) THEN Ok(r, textures)
    ELSE IF offsets[k] = 0 THEN TextureSetTextures(f, r, offsets, k + 1, textures)
    ELSE IF Len(r.base_stack) = 0 THEN Raise(r, "IndexError", textures)
    ELSE
    Try(Texture_read(f, seek(r, base(r) + offsets[k])), textures, LAMBDA tex :
    TextureSetTextures(f, seek(tex.r, r.pos), offsets, k + 1,
                       AppendTexture(textures, k, tex.val)))

\* the byte order the names table is unpacked with
NamesTableEndian(r) == "<"

\* struct.unpack('<I', r.f.read(4))[0], n times
RECURSIVE ReadNameOffsets(_, _, _, _)
ReadNameOffsets(f, r, n, acc) ==
    IF n <= 0 THEN Ok(r, acc)
    ELSE Bind(fread(f.b, f.kind, r.pos, 4), LAMBDA got :
         IF Len(got.data) # 4 THEN Raise(seek(r, got.pos), "struct.error", acc)
         ELSE ReadNameOffsets(f, seek(r, got.pos), n - 1,
                  Append(acc, UnpackU32(got.data, NamesTableEndian(r)))))

Put(m, k, v) == [x \in (DOMAIN m) \cup {k} |-> IF x = k THEN v ELSE m[x]]

\* textures[i].name = name if i < len(textures); texture_names[i] = name
SetTextureName(ts, i, name) ==
    TextureSet(IF i < Len(ts.textures)
               THEN [ts.textures EXCEPT ![i + 1].name = name]
               ELSE ts.textures,
               Put(ts.texture_names, i, name))

\* for i, name_offset in enumerate(name_offsets): ..., from entry k (1-based) on
RECURSIVE TextureSetNames(_, _, _, _, _)
TextureSetNames(f, r, name_offsets, k, ts) ==
    IF k > Len(name_offsets) THEN Ok(r, ts)
    ELSE IF name_offsets[k] = 0 THEN TextureSetNames(f, r, name_offsets, k + 1, ts)
    ELSE Bind(read_cstring(f.b, name_offsets[k]), LAMBDA got :
         TextureSetNames(f, seek(r, got.pos), name_offsets, k + 1,
                         SetTextureName(ts, k - 1, Str(got.s))))

\* r.set_endian(False): the byte order the signature is tried again in
RetryEndian(r) == set_endian(r, FALSE)

\* the signature check of TextureSet.read, with its retry
TextureSetSignature(f, r) ==
    Try(read_int32(f, r), None, LAMBDA sig :
    IF sig.val = TXP_TEXSET_SIG THEN Ok(sig.r, sig.val)
    ELSE
    Try(read_int32(f, seek(RetryEndian(sig.r), sig.r.pos - 4)), None, LAMBDA sig_be :
    IF sig_be.val # TXP_TEXSET_SIG THEN Raise(sig_be.r, "ValueError", None)
    ELSE Ok(sig_be.r, sig_be.val)))

TextureSet_read(f, r, texture_names_offset) ==
    Try(TextureSetSignature(f, r), NewTextureSet, LAMBDA sig :
    Try(read_int32(f, sig.r), NewTextureSet, LAMBDA tex_count :
    Try(read_int32(f, tex_count.r), NewTextureSet, LAMBDA rubbish :
    Try(ReadOffsets(f, rubbish.r, tex_count.val, <<>>), NewTextureSet, LAMBDA offsets :
    Bind(TextureSetTextures(f, offsets.r, offsets.val, 1, <<>>), LAMBDA textures :
    IF textures.exc # "none"
    THEN Raise(textures.r, textures.exc, TextureSet(textures.val, <<>>))
    ELSE IF texture_names_offset = 0
    THEN Ok(textures.r, TextureSet(textures.val, <<>>))
    ELSE
    Try(ReadNameOffsets(f, seek(textures.r, texture_names_offset), tex_count.val, <<>>),
        TextureSet(textures.val, <<>>), LAMBDA name_offsets :
    Bind(TextureSetNames(f, name_offsets.r, name_offsets.val, 1,
                         TextureSet(textures.val, <<>>)), LAMBDA named :
    Ok(seek(named.r, textures.r.pos), named.val))))))))

----------------------------------------------------------------------------
(* Sprite and SpriteSet *)

\* consecutive read_fmt calls, one per entry of fmts (TRUE: signed)
RECURSIVE ReadFields(_, _, _, _)
ReadFields(f, r, fmts, acc) ==
    IF fmts = <<>> THEN Ok(r, acc)
    ELSE Try(read_fmt(f, r, Head(fmts)), acc, LAMBDA v :
         ReadFields(f, v.r, Tail(fmts), Append(acc, v.val)))

\* Sprite.read: texture_index, a reserved word, then eight floats, kept as
\* their IEEE-754 bit patterns
Sprite_read(f, r) ==
    Try(ReadFields(f, r, <<FALSE, FALSE, TRUE, TRUE, TRUE, TRUE,
                           TRUE, TRUE, TRUE, TRUE>>, <<>>), None, LAMBDA v :
    Ok(v.r, [kind |-> "Sprite", texture_index |-> v.val[1],
             rect_begin |-> <<v.val[3], v.val[4]>>,
             rect_end |-> <<v.val[5], v.val[6]>>,
             x |-> v.val[7], y |-> v.val[8],
             width |-> v.val[9], height |-> v.val[10],
             name |-> None]))

SpriteSet(sprites, texture_set) ==
    [kind |-> "SpriteSet", sprites |-> sprites, texture_set |-> texture_set]

NewSpriteSet == SpriteSet(<<>>, None)

\* for _ in range(n): s = Sprite(); s.read(r); self.sprites.append(s)
RECURSIVE ReadSprites(_, _, _, _)
ReadSprites(f, r, n, sprites) ==
    IF n <= 0 THEN Ok(r, sprites)
    ELSE Try(Sprite_read(f, r), sprites, LAMBDA s :
         ReadSprites(f, s.r, n - 1, Append(sprites, s.val)))

\* for i, offset in enumerate(name_offsets): ..., from entry k (1-based) on
RECURSIVE SpriteNames(_, _, _, _, _)
SpriteNames(f, r, name_offsets, k, sprites) ==
    IF k > Len(name_offsets) THEN Ok(r, sprites)
    ELSE IF name_offsets[k] = 0 THEN SpriteNames(f, r, name_offsets, k + 1, sprites)
    ELSE Bind(read_cstring(f.b, name_offsets[k]), LAMBDA got :
         IF k > Len(sprites) THEN Raise(seek(r, got.pos), "IndexError", sprites)
         ELSE SpriteNames(f, seek(r, got.pos), name_offsets, k + 1,
                          [sprites EXCEPT ![k].name = Str(got.s)]))

\* SpriteSetSignature with a check against TXP_SPRITESET_SIG
SpriteSetSignature_Checked(r, sig) ==
    IF sig # TXP_SPRITESET_SIG THEN Raise(r, "ValueError", None) ELSE Ok(r, sig)

\* what SpriteSet.read does with the signature word it read: nothing
SpriteSetSignature(r, sig) == Ok(r, sig)

\* the header words of a SpriteSet, in order
SpriteSetHeader(f, r) ==
    Try(ReadFields(f, r, <<TRUE, FALSE, TRUE, TRUE, FALSE, FALSE, FALSE, FALSE>>, <<>>),
        None, LAMBDA h :
    Try(SpriteSetSignature(h.r, h.val[1]), None, LAMBDA sig :
    Ok(h.r, [textures_offset |-> h.val[2], texture_count |-> h.val[3],
             sprite_count |-> h.val[4], sprites_offset |-> h.val[5],
             texture_names_offset |-> h.val[6], sprite_names_offset |-> h.val[7],
             sprite_modes_offset |-> h.val[8]])))

\* if textures_offset != 0: ... of SpriteSet.read
SpriteSetTextures(f, r, h) ==
    IF h.textures_offset = 0 THEN Ok(r, None)
    ELSE Bind(TextureSet_read(f, push_base(seek(r, h.textures_offset),
                                           h.textures_offset),
                              h.texture_names_offset), LAMBDA ts :
         IF ts.exc # "none" THEN ts
         ELSE Ok(seek(pop_base(ts.r), r.pos), ts.val))

\* if sprites_offset != 0: ... of SpriteSet.read
SpriteSetSprites(f, r, h) ==
    IF h.sprites_offset = 0 THEN Ok(r, <<>>)
    ELSE IF Len(r.base_stack) = 0 THEN Raise(r, "IndexError", <<>>)
    ELSE Bind(ReadSprites(f, seek(r, base(r) + h.sprites_offset),
                          h.sprite_count, <<>>), LAMBDA sp :
         IF sp.exc # "none" THEN sp ELSE Ok(seek(sp.r, r.pos), sp.val))

\* if sprite_names_offset != 0: ... of SpriteSet.read
SpriteSetNames(f, r, h, sprites) ==
    IF h.sprite_names_offset = 0 THEN Ok(r, sprites)
    ELSE IF Len(r.base_stack) = 0 THEN Raise(r, "IndexError", sprites)
    ELSE Try(ReadOffsets(f, seek(r, base(r) + h.sprite_names_offset),
                         h.sprite_count, <<>>), sprites, LAMBDA name_offsets :
         Bind(SpriteNames(f, name_offsets.r, name_offsets.val, 1, sprites),
              LAMBDA named :
         IF named.exc # "none" THEN named ELSE Ok(seek(named.r, r.pos), named.val)))

SpriteSet_read(f, r) ==
    Try(SpriteSetHeader(f, r), NewSpriteSet, LAMBDA h :
    Bind(SpriteSetTextures(f, h.r, h.val), LAMBDA texture_set :
    Try(texture_set, SpriteSet(<<>>, texture_set.val), LAMBDA ts :
    Bind(SpriteSetSprites(f, ts.r, h.val), LAMBDA sprites :
    Try(sprites, SpriteSet(sprites.val, ts.val), LAMBDA sp :
    Bind(SpriteSetNames(f, sp.r, h.val, sp.val), LAMBDA names :
    Try(names, SpriteSet(names.val, ts.val), LAMBDA named :
    Ok(named.r, SpriteSet(named.val, ts.val)))))))))

----------------------------------------------------------------------------
(* FarcArchive *)

\* the ASCII tags, as code points
TagFARC == <<70, 65, 82, 67>>
TagFArC == <<70, 65, 114, 67>>
TagFArc == <<70, 65, 114, 99>>

\* FarcArchive.__init__; reader names the entry-table reader parse called
NewFarcArchive ==
    [signature |-> None, header_size |-> None, entries |-> <<>>, alignment |-> 1,
     reader |-> "none"]

FarcEntry(name, offset, compressed_size, uncompressed_size, is_compressed) ==
    [name |-> name, offset |-> offset, compressed_size |-> compressed_size,
     uncompressed_size |-> uncompressed_size, is_compressed |-> is_compressed]

\* result of a step of the archive parser: file position, exception, value
FOk(p, v) == [pos |-> p, exc |-> "none", val |-> v]
FRaise(p, e, v) == [pos |-> p, exc |-> e, val |-> v]

FTry(x, ar, K(_)) ==
    Bind(x, LAMBDA v : IF v.exc # "none" THEN FRaise(v.pos, v.exc, ar) ELSE K(v))

\* struct.unpack('>I', f.read(4))[0]; raw keeps the four bytes read
unpack_BE(f, p) ==
    Bind(fread(f.b, f.kind, p, 4), LAMBDA got :
    IF Len(got.data) # 4
    THEN [pos |-> got.pos, exc |-> "struct.error", val |-> 0, raw |-> got.data]
    ELSE [pos |-> got.pos, exc |-> "none", val |-> UnpackU32(got.data, ">"),
          raw |-> got.data])

\* FarcArchive._read_cstring: bytes up to a NUL or the end of the file,
\* decoded as UTF-8 with errors='ignore'.  The names of the files modelled
\* hold ASCII and bytes that start no UTF-8 sequence, which are dropped.
RECURSIVE FarcCString(_, _, _)
FarcCString(b, p, acc) ==
    IF p >= Len(b) THEN [s |-> acc, pos |-> p]
    ELSE IF b[p + 1] = 0 THEN [s |-> acc, pos |-> p + 1]
    ELSE FarcCString(b, p + 1, IF b[p + 1] < 128 THEN Append(acc, b[p + 1]) ELSE acc)

_read_cstring(f, p) == FarcCString(f.b, p, <<>>)

\* f.read(n) for a padding skip: only the position matters
SkipBytes(f, p, n) == IF n > 0 THEN fread(f.b, f.kind, p, n).pos ELSE p

\* bit k of the least significant byte of a big-endian word
FlagBit(raw, k) == (raw[4] \div (2^k)) % 2 = 1

\* the entry loop of _parse_farc
RECURSIVE FarcEntries(_, _, _, _, _)
FarcEntries(f, p, ar, is_compressed_archive, entry_padding) ==
    IF ~(p < ar.header_size) THEN FOk(p, ar) ELSE
    Bind(_read_cstring(f, p), LAMBDA name :
    FTry(unpack_BE(f, name.pos), ar, LAMBDA offset :
    FTry(unpack_BE(f, offset.pos), ar, LAMBDA compressed_size :
    FTry(unpack_BE(f, compressed_size.pos), ar, LAMBDA uncompressed_size :
    FarcEntries(f, SkipBytes(f, uncompressed_size.pos, entry_padding),
                [ar EXCEPT !.entries =
                    Append(@, FarcEntry(Str(name.s), offset.val, compressed_size.val,
                                        uncompressed_size.val,
                                        is_compressed_archive
                                          /\ compressed_size.val # uncompressed_size.val))],
                is_compressed_archive, entry_padding)))))

\* is_encrypted with the mask of the compression bit
is_encrypted_Mask2(raw) == FlagBit(raw, 1)

\* (flags & 4) != 0
is_encrypted(raw) == FlagBit(raw, 2)

_parse_farc(f, p, ar) ==
    FTry(unpack_BE(f, p), ar, LAMBDA flags :
    FTry(unpack_BE(f, flags.pos), ar, LAMBDA padding :
    FTry(unpack_BE(f, padding.pos), ar, LAMBDA alignment :
    IF is_encrypted(flags.raw)
    THEN FRaise(alignment.pos, "NotImplementedError",
                [ar EXCEPT !.alignment = alignment.val])
    ELSE
    FTry(unpack_BE(f, alignment.pos), [ar EXCEPT !.alignment = alignment.val],
         LAMBDA entry_padding :
    FTry(unpack_BE(f, entry_padding.pos), [ar EXCEPT !.alignment = alignment.val],
         LAMBDA header_padding :
    FarcEntries(f, SkipBytes(f, header_padding.pos, header_padding.val),
                [ar EXCEPT !.alignment = alignment.val],
                FlagBit(flags.raw, 1), entry_padding.val))))))

\* LegacyEntry with the flag derived as the Full variant derives it
LegacyEntry_FullRule(name, offset, compressed_size, uncompressed_size) ==
    FarcEntry(name, offset, compressed_size,
              IF uncompressed_size = 0 THEN compressed_size ELSE uncompressed_size,
              compressed_size # uncompressed_size)

\* the entry _parse_farc_lowercase builds from the four stored fields
LegacyEntry(name, offset, compressed_size, uncompressed_size) ==
    FarcEntry(name, offset, compressed_size,
              IF uncompressed_size = 0 THEN compressed_size ELSE uncompressed_size,
              uncompressed_size # 0 /\ compressed_size # uncompressed_size)

\* the entry loop of _parse_farc_lowercase
RECURSIVE FarcLowercaseEntries(_, _, _)
FarcLowercaseEntries(f, p, ar) ==
    IF ~(p < ar.header_size) THEN FOk(p, ar) ELSE
    Bind(_read_cstring(f, p), LAMBDA name :
    FTry(unpack_BE(f, name.pos), ar, LAMBDA offset :
    FTry(unpack_BE(f, offset.pos), ar, LAMBDA compressed_size :
    FTry(unpack_BE(f, compressed_size.pos), ar, LAMBDA uncompressed_size :
    FarcLowercaseEntries(f, uncompressed_size.pos,
        [ar EXCEPT !.entries =
            Append(@, LegacyEntry(Str(name.s), offset.val, compressed_size.val,
                                  uncompressed_size.val))])))))

_parse_farc_lowercase(f, p, ar) ==
    FTry(unpack_BE(f, p), ar, LAMBDA alignment :
    FarcLowercaseEntries(f, alignment.pos, [ar EXCEPT !.alignment = alignment.val]))

\* the entry loop of _parse_farc_minimal
RECURSIVE FarcMinimalEntries(_, _, _)
FarcMinimalEntries(f, p, ar) ==
    IF ~(p < ar.header_size) THEN FOk(p, ar) ELSE
    Bind(_read_cstring(f, p), LAMBDA name :
    FTry(unpack_BE(f, name.pos), ar, LAMBDA offset :
    FTry(unpack_BE(f, offset.pos), ar, LAMBDA size :
    FarcMinimalEntries(f, size.pos,
        [ar EXCEPT !.entries =
            Append(@, FarcEntry(Str(name.s), offset.val, size.val, size.val, FALSE))]))))

_parse_farc_minimal(f, p, ar) ==
    FTry(unpack_BE(f, p), ar, LAMBDA alignment :
    FarcMinimalEntries(f, alignment.pos, [ar EXCEPT !.alignment = alignment.val]))

\* the tags FarcArchive.parse accepts
KnownTags == {TagFARC, TagFArC, TagFArc}

\* FarcReaderFor with the readers of the two mixed-case tags exchanged
FarcReaderFor_Swapped(signature) ==
    IF signature = TagFARC THEN "_parse_farc"
    ELSE IF signature = TagFArC THEN "_parse_farc_minimal"
    ELSE IF signature = TagFArc THEN "_parse_farc_lowercase"
    ELSE "none"

\* the entry-table reader parse dispatches a tag to
FarcReaderFor(signature) ==
    IF signature = TagFARC THEN "_parse_farc"
    ELSE IF signature = TagFArC THEN "_parse_farc_lowercase"
    ELSE IF signature = TagFArc THEN "_parse_farc_minimal"
    ELSE "none"

\* the entry-table reader named which, run on the file at p
RunFarcReader(which, f, p, ar) ==
    IF which = "_parse_farc" THEN _parse_farc(f, p, ar)
    ELSE IF which = "_parse_farc_lowercase" THEN _parse_farc_lowercase(f, p, ar)
    ELSE IF which = "_parse_farc_minimal" THEN _parse_farc_minimal(f, p, ar)
    ELSE FOk(p, ar)

\* FarcArchive.parse on a file positioned at p
FarcArchive_parse(f, p, ar) ==
    Bind(fread(f.b, f.kind, p, 4), LAMBDA tag :
    IF \E k \in 1..Len(tag.data) : tag.data[k] >= 128
    THEN FRaise(tag.pos, "UnicodeDecodeError", ar)
    ELSE IF tag.data \notin KnownTags
    THEN FRaise(tag.pos, "ValueError", [ar EXCEPT !.signature = Str(tag.data)])
    ELSE
    FTry(unpack_BE(f, tag.pos), [ar EXCEPT !.signature = Str(tag.data)],
         LAMBDA header_size_value :
    RunFarcReader(FarcReaderFor(tag.data), f, header_size_value.pos,
                  [ar EXCEPT !.signature = Str(tag.data),
                             !.header_size = header_size_value.val + 8,
                             !.reader = FarcReaderFor(tag.data)])))

----------------------------------------------------------------------------
(* gzip.decompress, as FarcArchive.extract_entry_data calls it.  The gzip
   member header, the stored deflate block, the CRC-32 and the length
   trailer are decoded; the archives modelled hold no Huffman-coded block. *)

\* struct.pack('<I', n) for a length
PackLen(n) == <<n % 256, (n \div 256) % 256, (n \div 65536) % 256, (n \div 16777216) % 256>>

\* bit k of a byte
ByteBit(c, k) == (c \div (2^k)) % 2

\* the bits of a byte string, least significant bit of the first byte first
BitsOf(d) == [k \in 1..(8 * Len(d)) |-> ByteBit(d[((k - 1) \div 8) + 1], (k - 1) % 8)]

\* the bytes of a bit string
BytesOf(bits) ==
    [j \in 1..(Len(bits) \div 8) |->
        bits[8 * j - 7] + 2 * bits[8 * j - 6] + 4 * bits[8 * j - 5]
          + 8 * bits[8 * j - 4] + 16 * bits[8 * j - 3] + 32 * bits[8 * j - 2]
          + 64 * bits[8 * j - 1] + 128 * bits[8 * j]]

Xor(x, y) == [k \in 1..Len(x) |-> (x[k] + (IF k <= Len(y) THEN y[k] ELSE 0)) % 2]

\* the reflected CRC-32 polynomial 0xEDB88320, as bits
CrcPoly == BitsOf(<<32, 131, 184, 237>>)

\* one shift of the CRC register
CrcShift(crc) ==
    Xor([k \in 1..32 |-> IF k < 32 THEN crc[k + 1] ELSE 0],
        IF crc[1] = 1 THEN CrcPoly ELSE <<>>)

RECURSIVE CrcShifts(_, _)
CrcShifts(crc, n) == IF n = 0 THEN crc ELSE CrcShifts(CrcShift(crc), n - 1)

RECURSIVE CrcOver(_, _, _)
CrcOver(d, k, crc) ==
    IF k > Len(d) THEN crc
    ELSE CrcOver(d, k + 1, CrcShifts(Xor(crc, BitsOf(<<d[k]>>)), 8))

\* zlib.crc32(d), as the four bytes struct.pack('<I', crc)
crc32(d) == BytesOf(Xor(CrcOver(d, 1, [k \in 1..32 |-> 1]), [k \in 1..32 |-> 1]))

\* the position after a NUL-terminated field that starts at p
RECURSIVE SkipField(_, _)
SkipField(d, p) ==
    IF p >= Len(d) THEN p
    ELSE IF d[p + 1] = 0 THEN p + 1
    ELSE SkipField(d, p + 1)

\* the result of a step of the gzip decoder
GzOk(p, out) == [exc |-> "none", pos |-> p, data |-> out, eof |-> TRUE]
GzRaise(e) == [exc |-> e, pos |-> 0, data |-> <<>>, eof |-> FALSE]

\* _read_gzip_header after the fixed ten bytes: FEXTRA, FNAME, FCOMMENT, FHCRC
GzipHcrc(d, flag, p) ==
    IF ByteBit(flag, 1) = 0 THEN GzOk(p, <<>>)
    ELSE IF p + 2 > Len(d) THEN GzRaise("EOFError")
    ELSE GzOk(p + 2, <<>>)

GzipComment(d, flag, p) ==
    GzipHcrc(d, flag, IF ByteBit(flag, 4) = 1 THEN SkipField(d, p) ELSE p)

GzipName(d, flag, p) ==
    GzipComment(d, flag, IF ByteBit(flag, 3) = 1 THEN SkipField(d, p) ELSE p)

GzipExtra(d, flag, p) ==
    IF ByteBit(flag, 2) = 0 THEN GzipName(d, flag, p)
    ELSE IF p + 2 > Len(d) THEN GzRaise("EOFError")
    ELSE IF p + 2 + d[p + 1] + 256 * d[p + 2] > Len(d) THEN GzRaise("EOFError")
    ELSE GzipName(d, flag, p + 2 + d[p + 1] + 256 * d[p + 2])

\* gzip._read_gzip_header on a member that is not empty
_read_gzip_header(d) ==
    IF SubSeq(d, 1, Min(2, Len(d))) # <<31, 139>> THEN GzRaise("BadGzipFile")
    ELSE IF Len(d) < 10 THEN GzRaise("EOFError")
    ELSE IF d[3] # 8 THEN GzRaise("BadGzipFile")
    ELSE GzipExtra(d, d[4], 10)

\* zlib's raw inflate from the block that starts at p: eof says whether the
\* final block was read to its end
RECURSIVE Inflate(_, _, _)
Inflate(d, p, out) ==
    IF p >= Len(d) THEN [GzOk(p, out) EXCEPT !.eof = FALSE]
    ELSE IF (d[p + 1] \div 2) % 4 # 0 THEN GzRaise("zlib.error")
    ELSE IF p + 5 > Len(d) THEN [GzOk(p, out) EXCEPT !.eof = FALSE]
    ELSE IF d[p + 2] + d[p + 4] # 255 \/ d[p + 3] + d[p + 5] # 255
    THEN GzRaise("zlib.error")
    ELSE IF p + 5 + d[p + 2] + 256 * d[p + 3] > Len(d)
    THEN [GzOk(p, out) EXCEPT !.eof = FALSE]
    ELSE IF d[p + 1] % 2 = 1
    THEN GzOk(p + 5 + d[p + 2] + 256 * d[p + 3],
              out \o SubSeq(d, p + 6, p + 5 + d[p + 2] + 256 * d[p + 3]))
    ELSE Inflate(d, p + 5 + d[p + 2] + 256 * d[p + 3],
                 out \o SubSeq(d, p + 6, p + 5 + d[p + 2] + 256 * d[p + 3]))

\* bytes.lstrip(b'\x00')
RECURSIVE LStripZeros(_)
LStripZeros(d) ==
    IF Len(d) > 0 /\ d[1] = 0 THEN LStripZeros(Tail(d)) ELSE d

\* gzip.decompress(data): the members decoded so far are in members
RECURSIVE gzip_decompress(_, _)
gzip_decompress(data, members) ==
    IF Len(data) = 0 THEN GzOk(0, members) ELSE
    Bind(_read_gzip_header(data), LAMBDA header :
    IF header.exc # "none" THEN header ELSE
    Bind(Inflate(data, header.pos, <<>>), LAMBDA do :
    IF do.exc # "none" THEN do
    ELSE IF ~do.eof \/ Len(data) - do.pos < 8 THEN GzRaise("EOFError")
    ELSE IF SubSeq(data, do.pos + 1, do.pos + 4) # crc32(do.data)
    THEN GzRaise("BadGzipFile")
    ELSE IF SubSeq(data, do.pos + 5, do.pos + 8) # PackLen(Len(do.data))
    THEN GzRaise("BadGzipFile")
    ELSE gzip_decompress(LStripZeros(SubSeq(data, do.pos + 9, Len(data))),
                         members \o do.data)))

\* what extract_entry_data does with the bytes it read: gzip names the
\* outcome of the decompression, "skipped" when none was attempted, and log
\* holds the exception it printed
Decompressed(got, is_compressed, dec) ==
    IF ~is_compressed
    THEN [exc |-> "none", data |-> got.data, pos |-> got.pos, gzip |-> "skipped",
          log |-> "none"]
    ELSE IF dec.exc = "none"
    THEN [exc |-> "none", data |-> dec.data, pos |-> got.pos, gzip |-> "done",
          log |-> "none"]
    ELSE [exc |-> "none", data |-> got.data, pos |-> got.pos, gzip |-> "failed",
          log |-> dec.exc]

\* FarcArchive.extract_entry_data(f, entry)
extract_entry_data(f, en) ==
    Bind(fread(f.b, f.kind, en.offset, en.compressed_size), LAMBDA got :
    Decompressed(got, en.is_compressed,
                 IF en.is_compressed THEN gzip_decompress(got.data, <<>>)
                 ELSE GzOk(0, <<>>)))

----------------------------------------------------------------------------
(* Input buffers: byte images of SpriteSet files, built field by field *)

\* struct.pack(e + 'i', v)
PackI32(v, e) ==
    LET lsb == <<v % 256, (v \div 256) % 256, (v \div 65536) % 256,
                 (v \div 16777216) % 256>>
    IN  IF e = "<" THEN lsb ELSE <<lsb[4], lsb[3], lsb[2], lsb[1]>>

RECURSIVE FlattenTo(_, _)
FlattenTo(ss, n) == IF n = 0 THEN <<>> ELSE FlattenTo(ss, n - 1) \o ss[n]

Flatten(ss) == FlattenTo(ss, Len(ss))

RECURSIVE SumLen(_, _)
SumLen(ss, n) == IF n = 0 THEN 0 ELSE Len(ss[n]) + SumLen(ss, n - 1)

Words(vs, e) == Flatten([k \in 1..Len(vs) |-> PackI32(vs[k], e)])

Bytes(n, v) == [k \in 1..n |-> v]

\* a SubTexture image: the size field says size, avail payload bytes follow
SubTextureImage(e, sig, id, size, avail) ==
    Words(<<sig, 8 + id, 4 + id, 6, id, size>>, e) \o Bytes(avail, 160 + id)

\* a block with a table of offsets to its children: head words, one table
\* entry per child (0 for an absent child, written as <<>>), the children
TableImage(e, head, children) ==
    LET n == Len(children)
        first == 4 * (Len(head) + n)
        off(k) == IF children[k] = <<>> THEN 0 ELSE first + SumLen(children, k - 1)
    IN  Words(head, e) \o Words([k \in 1..n |-> off(k)], e) \o Flatten(children)

\* a Texture image: cells[k] is <<>> or <<sig, size, avail>> of the k-th
\* SubTexture
TextureImage(e, sig, subcount, array_size, mip_count, cells) ==
    TableImage(e, <<sig, subcount, array_size * 256 + mip_count>>,
               [k \in 1..Len(cells) |->
                   IF cells[k] = <<>> THEN <<>>
                   ELSE SubTextureImage(e, cells[k][1], k, cells[k][2], cells[k][3])])

TextureSetImage(e, sig, tex_count, textures) ==
    TableImage(e, <<sig, tex_count, tex_count>>, textures)

\* a name table: absolute offsets (0 for <<>>) to NUL-terminated strings
\* that follow the table, which starts at position at
NameTableImage(e, at, names) ==
    LET n == Len(names)
        strs == [k \in 1..n |-> IF names[k] = <<>> THEN <<>>
                                 ELSE Append(names[k], 0)]
        off(k) == IF names[k] = <<>> THEN 0 ELSE at + 4 * n + SumLen(strs, k - 1)
    IN  Words([k \in 1..n |-> off(k)], e) \o Flatten(strs)

\* a Sprite record on texture t: x, y, width, height are floats, given here
\* by their bit patterns
SpriteImage(e, t, k) ==
    Words(<<t, 0, 0, 0, 1065353216, 1065353216,
            1073741824 + k, 1077936128, 1082130432, 1084227584>>, e)

\* a SpriteSet file: header at 0, TextureSet at 32, then the texture name
\* table, the sprite records and the sprite name table
FileImage(e, sig, ts, tnames, nsprites, snames) ==
    LET tn_at == 32 + Len(ts)
        tn == IF tnames = <<>> THEN <<>> ELSE NameTableImage(e, tn_at, tnames)
        sp_at == tn_at + Len(tn)
        sp == Flatten([k \in 1..nsprites |-> SpriteImage(e, 0, k)])
        sn_at == sp_at + Len(sp)
        sn == IF snames = <<>> THEN <<>> ELSE NameTableImage(e, sn_at, snames)
    IN  Words(<<sig, 32, Len(tnames), IF snames = <<>> THEN nsprites ELSE Len(snames),
                IF nsprites = 0 THEN 0 ELSE sp_at,
                IF tnames = <<>> THEN 0 ELSE tn_at,
                IF snames = <<>> THEN 0 ELSE sn_at, 0>>, e)
        \o ts \o tn \o sp \o sn

StdCell == <<TXP_SUBTEXTURE_SIG, 2, 2>>
BadSig == TXP_SUBTEXTURE_SIG + 2048

\* Textures: a 1x1 grid; subcount 2 against a declared mip_count of 1; a
\* 2x1 and a 2x2 grid with absent cells; subcount n against a declared
\* mip_count of 2; array_size 0; a wrong signature; a cell of a given
\* signature, size field and payload
TexA(e) == TextureImage(e, TXP_TEXTURE_SIG_V4, 1, 1, 1, <<StdCell>>)
TexB(e) == TextureImage(e, TXP_TEXTURE_SIG_V5, 2, 1, 1, <<StdCell, <<>>>>)
TexC(e) == TextureImage(e, TXP_TEXTURE_SIG_V4, 2, 2, 1, <<<<>>, StdCell>>)
TexF(e) == TextureImage(e, TXP_TEXTURE_SIG_V5, 4, 2, 2, <<StdCell, <<>>, <<>>, StdCell>>)
TexD(e, n) == TextureImage(e, TXP_TEXTURE_SIG_V4, n, 1, 2, <<StdCell>>)
TexE(e) == TextureImage(e, TXP_TEXTURE_SIG_V4, 1, 0, 1, <<StdCell>>)
TexG(e) == TextureImage(e, BadSig, 1, 1, 1, <<StdCell>>)
TexS(e, cell) == TextureImage(e, TXP_TEXTURE_SIG_V4, 1, 1, 1, <<cell>>)

\* a file in which a Texture follows other data: a SubTexture (id 9) lies at
\* file position 16, and the Texture's own SubTexture at offset 16 from the
\* Texture's start
Decoy(e) ==
    Bytes(16, 0) \o SubTextureImage(e, TXP_SUBTEXTURE_SIG, 9, 2, 2) \o TexA(e)

NameA == <<97>>
NameB == <<98, 99>>

\* a file whose TextureSet holds the given textures, with no name tables
\* and no sprites
Plain(e, textures) ==
    FileImage(e, 0, TextureSetImage(e, TXP_TEXSET_SIG, Len(textures), textures),
              <<>>, 0, <<>>)

\* a file with textures, texture names, two sprites and sprite names
Full(e, sig, setsig, textures, tnames) ==
    FileImage(e, sig, TextureSetImage(e, setsig, Len(textures), textures),
              tnames, 2, <<NameA, <<>>>>)

\* the file of a valid TextureSet of two Textures with their names, and the
\* same file with a nonzero first word
NamedSet(e) == Full(e, 0, TXP_TEXSET_SIG, <<TexA(e), TexB(e)>>, <<NameA, NameB>>)

NonzeroSig(e) == Full(e, 1, TXP_TEXSET_SIG, <<TexA(e), TexB(e)>>, <<NameA, NameB>>)

\* the file of a TextureSet whose first offset-table entry is zero
SparseSet(e) == Full(e, 0, TXP_TEXSET_SIG, <<<<>>, TexA(e)>>, <<NameA, NameB>>)

Cut(b, n) == SubSeq(b, 1, Min(n, Len(b)))

Endians == {"<", ">"}

\* file contents, in both byte orders
TxpBuffers ==
    UNION {
      { NamedSet(e),
        NonzeroSig(e),
        SparseSet(e),
        Full(e, 0, TXP_TEXSET_SIG, <<<<>>, TexB(e)>>, <<<<>>, NameB>>),
        Full(e, 0, BadSig, <<TexA(e)>>, <<NameA>>),
        Plain(e, <<TexC(e)>>),
        Plain(e, <<TexF(e), TexA(e)>>),
        Plain(e, <<TexD(e, 0)>>),
        Plain(e, <<TexD(e, -1)>>),
        Plain(e, <<TexD(e, 3)>>),
        Plain(e, <<TexE(e)>>),
        Plain(e, <<TexG(e)>>),
        Plain(e, <<TexS(e, <<BadSig, 2, 2>>)>>),
        Plain(e, <<TexS(e, <<TXP_SUBTEXTURE_SIG, 5, 2>>)>>),
        Plain(e, <<TexS(e, <<TXP_SUBTEXTURE_SIG, 0, 2>>)>>),
        Decoy(e) }
      \cup { Cut(Plain(e, <<TexA(e)>>), n) : n \in {30, 42, 54, 62, 74, 87} }
      : e \in Endians }

\* file contents with a negative SubTexture size field
NegativeSizeBuffers ==
    { Plain(e, <<TexS(e, <<TXP_SUBTEXTURE_SIG, n, 2>>), TexA(e)>>) :
        e \in Endians, n \in {-1, -2} }

\* the files a Reader is opened on: in-memory files, and files on disk for
\* the contents on which the two differ
Files ==
    {[b |-> b, kind |-> "BytesIO"] : b \in TxpBuffers \cup NegativeSizeBuffers}
    \cup {[b |-> b, kind |-> "BufferedReader"] : b \in NegativeSizeBuffers}

----------------------------------------------------------------------------
(* Input buffers: byte images of archives *)

\* an entry of an entry table: <<name, offset, compressed_size,
\* uncompressed_size>>; words is 2 for the Minimal table and 3 otherwise
FarcEntryImage(en, words, entry_padding) ==
    Append(en[1], 0)
        \o (IF words = 2 THEN Words(<<en[2], en[3]>>, ">")
            ELSE Words(<<en[2], en[3], en[4]>>, ">"))
        \o Bytes(entry_padding, 0)

\* the bytes of an archive after its tag and header-size field: the fields
\* of the variant the tag names, then the entry table
FarcTableImage(tag, flags, entry_padding, header_padding, entries) ==
    IF tag = TagFArc
    THEN Words(<<1>>, ">")
           \o Flatten([k \in 1..Len(entries) |-> FarcEntryImage(entries[k], 2, 0)])
    ELSE IF tag = TagFArC
    THEN Words(<<1>>, ">")
           \o Flatten([k \in 1..Len(entries) |-> FarcEntryImage(entries[k], 3, 0)])
    ELSE Words(<<flags, 0, 16, entry_padding, header_padding>>, ">")
           \o Bytes(header_padding, 0)
           \o Flatten([k \in 1..Len(entries) |->
                          FarcEntryImage(entries[k], 3, entry_padding)])

\* the file data that follows the header
FarcData == [k \in 1..12 |-> 200 + k]

\* an archive: the header-size field says where the entry table ends, plus
\* delta
FarcImage(tag, delta, flags, entry_padding, header_padding, entries) ==
    tag \o Words(<<Len(FarcTableImage(tag, flags, entry_padding, header_padding,
                                      entries)) + delta>>, ">")
        \o FarcTableImage(tag, flags, entry_padding, header_padding, entries)
        \o FarcData

MaxEntries == 2

EntryChoices == {<<NameA, 40, 4, 4>>, <<NameB, 44, 4, 8>>, <<NameA, 48, 2, 0>>}

EntryLists == UNION {[1..n -> EntryChoices] : n \in 0..MaxEntries}

\* tags parse does not know: "FARc", "farc", and one that is not ASCII
UnknownTags == {<<70, 65, 82, 99>>, <<102, 97, 114, 99>>, <<70, 65, 82, 200>>}

FarcBuffers ==
    {FarcImage(TagFARC, 0, flags, entry_padding, header_padding, entries) :
        flags \in {0, 2, 4, 6}, entry_padding \in {0, 4}, header_padding \in {0, 4},
        entries \in EntryLists}
    \cup {FarcImage(tag, delta, 0, 0, 0, entries) :
            tag \in KnownTags \cup UnknownTags, delta \in {0, -2, 1},
            entries \in EntryLists}
    \cup {Cut(FarcImage(tag, 0, 0, 0, 0, <<<<NameA, 40, 4, 4>>>>), n) :
            tag \in KnownTags \cup UnknownTags, n \in {0, 2, 4, 6, 8, 10, 14, 22}}
    \cup {Cut(FarcImage(TagFARC, 0, flags, 0, 0, <<<<NameA, 40, 4, 4>>>>), n) :
            flags \in {4, 6}, n \in {12, 14, 16, 18, 20, 24}}

\* gzip members whose deflate data is one stored block: of "AB", and of "C"
\* with the FNAME field "n"
GzipAB ==
    <<31, 139, 8, 0, 0, 0, 0, 0, 0, 255, 1, 2, 0, 253, 255, 65, 66,
      7, 76, 105, 48, 2, 0, 0, 0>>

GzipNamedC ==
    <<31, 139, 8, 8, 0, 0, 0, 0, 0, 255, 110, 0, 1, 1, 0, 254, 255, 67,
      167, 255, 215, 61, 1, 0, 0, 0>>

\* entry payloads: data that is no gzip stream, an empty payload, gzip
\* streams that decompress (one member, one member and padding, two members)
\* and gzip streams that do not (a wrong CRC, a wrong length, a cut stream)
Payloads ==
    {<<201, 202, 203, 204>>, <<>>, GzipAB, GzipAB \o <<0, 0>>, GzipAB \o GzipNamedC,
     [GzipAB EXCEPT ![18] = 8], [GzipAB EXCEPT ![22] = 3], Cut(GzipAB, 22)}

\* the table entries <<name, offset, compressed_size, uncompressed_size>> of
\* files <<name, payload, uncompressed_size>> stored back to back from start;
\* an uncompressed_size of -1 stands for the length of the payload
PackedEntries(files, start) ==
    [k \in 1..Len(files) |->
        <<files[k][1],
          start + SumLen([j \in 1..Len(files) |-> files[j][2]], k - 1),
          Len(files[k][2]),
          IF files[k][3] = -1 THEN Len(files[k][2]) ELSE files[k][3]>>]

\* an archive whose header is followed by the payloads of its entries
PackedTable(tag, flags, files) ==
    FarcTableImage(tag, flags, 0, 0,
                   PackedEntries(files, 8 + Len(FarcTableImage(tag, flags, 0, 0,
                                                               PackedEntries(files, 0)))))

PackedImage(tag, flags, files) ==
    tag \o Words(<<Len(PackedTable(tag, flags, files))>>, ">")
        \o PackedTable(tag, flags, files)
        \o Flatten([k \in 1..Len(files) |-> files[k][2]])

FileLists ==
    {<<<<NameA, first[1], first[2]>>>> : first \in Payloads \X {0, 2, -1}}
    \cup {<<<<NameA, first[1], first[2]>>, second>> :
            first \in Payloads \X {0, 2, -1},
            second \in {<<NameB, GzipAB, 2>>, <<NameB, <<201, 202, 203, 204>>, 0>>}}

\* "a.bin" and "b.bin"
NameABin == <<97, 46, 98, 105, 110>>
NameBBin == <<98, 46, 98, 105, 110>>

PackedBuffers ==
    {PackedImage(tf[1], tf[2], files) :
        tf \in {<<TagFARC, 0>>, <<TagFARC, 2>>, <<TagFArC, 0>>, <<TagFArc, 0>>},
        files \in FileLists}
    \cup {Cut(PackedImage(tag, 2, <<<<NameA, GzipAB, 2>>>>), n) :
            tag \in KnownTags, n \in {44, 52}}
    \cup {FarcImage(TagFArc, 0, 0, 0, 0, <<<<NameABin, 16, 8, 8>>, <<NameBBin, 24, 4, 4>>>>)}

FarcFiles == {[b |-> b, kind |-> "BufferedReader"] : b \in FarcBuffers \cup PackedBuffers}

----------------------------------------------------------------------------
(* Reader.read_at_offset *)

\* the callables handed to read_at_offset
Decoders == {"read_int32", "read_bytes", "read_cstring", "SubTexture.read"}

\* func(): the decoder called on the Reader
Decode(f, r, func) ==
    IF func = "read_int32" THEN read_int32(f, r)
    ELSE IF func = "read_bytes" THEN read_bytes(f, r, 8)
    ELSE IF func = "read_cstring"
    THEN Ok(seek(r, read_cstring(f.b, r.pos).pos), Str(read_cstring(f.b, r.pos).s))
    ELSE SubTexture_read(f, r)

\* the outcome of read_at_offset; at is the position the decoder was called
\* at, -1 when it was not called
ReadAt(r, e, v, at) == [r |-> r, exc |-> e, val |-> v, at |-> at]

\* Reader.read_at_offset(offset, func)
read_at_offset(f, r, offset, func) ==
    IF offset = 0 THEN ReadAt(r, "none", None, -1)
    ELSE IF Len(r.base_stack) = 0 THEN ReadAt(r, "IndexError", None, -1)
    ELSE Bind(Decode(f, seek(r, base(r) + offset), func), LAMBDA res :
         IF res.exc # "none" THEN ReadAt(res.r, res.exc, None, base(r) + offset)
         ELSE ReadAt(seek(res.r, r.pos), "none", res.val, base(r) + offset))

----------------------------------------------------------------------------
(* The state machine: one Reader on one file *)

MaxStack == 1

\* no export is under way
NoExport == [texture_images |-> <<>>, next |-> 1, exported |-> <<>>, skipped |-> <<>>,
             failed |-> <<>>]

\* no recovery scan is under way
NoScan == [hits |-> <<>>, log |-> <<>>, found_any |-> 0]

ValidSigs ==
    {TXP_TEXSET_SIG, TXP_TEXTURE_SIG_V4, TXP_TEXTURE_SIG_V5, TXP_SUBTEXTURE_SIG}

WordAt(b, p) == SubSeq(b, p + 1, p + 4)

\* the positions where a word of the buffer is one of sigs in either order
Hits(b, sigs) ==
    {p \in 0..(Len(b) - 4) :
        \E e \in Endians : UnpackI32(WordAt(b, p), e) \in sigs}

Lowest(S) == {p \in S : \A q \in S : p <= q}

\* where a caller positions the Reader: the start of the file and the first
\* TextureSet, Texture and SubTexture signature in it
SeekTargets(b) ==
    {0} \cup Lowest(Hits(b, {TXP_TEXSET_SIG}))
        \cup Lowest(Hits(b, {TXP_TEXTURE_SIG_V4, TXP_TEXTURE_SIG_V5}))
        \cup Lowest(Hits(b, {TXP_SUBTEXTURE_SIG}))

\* the texture_names_offset a caller passes: none, or the header's field
NamesArgs(b) ==
    {0} \cup {o \in {UnpackU32(WordAt(b, 20), e) : e \in Endians} :
                 Len(b) >= 24 /\ o < Len(b)}

R == [pos |-> pos, endian |-> endian, base_stack |-> base_stack]

F == [b |-> buf, kind |-> fkind]

Init ==
    /\ \E file \in Files : buf = file.b /\ fkind = file.kind
    /\ pos = NewReader.pos
    /\ endian = NewReader.endian
    /\ base_stack = NewReader.base_stack
    /\ op = "init"
    /\ entry = NewReader
    /\ exc = "none"
    /\ obj = None
    /\ arg = 0
    /\ archive = NewFarcArchive
    /\ scan = NoScan
    /\ export = NoExport

SetReader(r) ==
    /\ pos' = r.pos
    /\ endian' = r.endian
    /\ base_stack' = r.base_stack

\* r.set_endian(little)
SetEndian ==
    /\ op = "init"
    /\ \E little \in BOOLEAN : SetReader(set_endian(R, little))
    /\ UNCHANGED <<buf, fkind, op, entry, exc, obj, arg, archive, scan, export>>

\* r.seek(p)
Seek ==
    /\ op = "init"
    /\ \E p \in SeekTargets(buf) : SetReader(seek(R, p))
    /\ UNCHANGED <<buf, fkind, op, entry, exc, obj, arg, archive, scan, export>>

\* r.push_base(): the current position becomes the base
PushBase ==
    /\ op = "init"
    /\ Len(base_stack) < MaxStack
    /\ SetReader(push_base(R, pos))
    /\ UNCHANGED <<buf, fkind, op, entry, exc, obj, arg, archive, scan, export>>

\* r.pop_base()
PopBase ==
    /\ op = "init"
    /\ Len(base_stack) > 0
    /\ SetReader(pop_base(R))
    /\ UNCHANGED <<buf, fkind, op, entry, exc, obj, arg, archive, scan, export>>

\* a structured parse call on the Reader, and what it left behind
Call(name, a, res) ==
    /\ op = "init"
    /\ SetReader(res.r)
    /\ op' = name
    /\ entry' = R
    /\ exc' = res.exc
    /\ obj' = res.val
    /\ arg' = a
    /\ UNCHANGED <<buf, fkind, archive, scan, export>>

SubTextureRead == Call("SubTexture.read", 0, SubTexture_read(F, R))

TextureRead == Call("Texture.read", 0, Texture_read(F, R))

TextureSetRead ==
    \E a \in NamesArgs(buf) : Call("TextureSet.read", a, TextureSet_read(F, R, a))

SpriteSetRead == Call("SpriteSet.read", 0, SpriteSet_read(F, R))

\* the read operations of the Reader, called directly; arg is the number of
\* bytes asked for
ReadInt32 == Call("read_int32", 4, read_int32(F, R))

ReadUint32 == Call("read_uint32", 4, read_uint32(F, R))

ReadFloat == Call("read_float", 4, read_float(F, R))

ReadSizes == {0, 4, 8}

ReadBytes == \E n \in ReadSizes : Call("read_bytes", n, read_bytes(F, R, n))

\* the offsets handed to read_at_offset: 0, and a few up to the end of
\* the file
AtOffsets(b) == {0, 4, 16} \cup {Len(b)}

\* r.read_at_offset(offset, func); arg is the call's arguments and obj what
\* it returned and where the decoder was called
ReadAtOffset ==
    /\ op = "init"
    /\ \E offset \in AtOffsets(buf), func \in Decoders :
          \E res \in {read_at_offset(F, R, offset, func)} :
             /\ SetReader(res.r)
             /\ exc' = res.exc
             /\ obj' = [kind |-> "read_at_offset", val |-> res.val, at |-> res.at]
             /\ arg' = [offset |-> offset, func |-> func]
    /\ op' = "read_at_offset"
    /\ entry' = R
    /\ UNCHANGED <<buf, fkind, archive, scan, export>>

\* fobj.seek(0); r = Reader(fobj): a new Reader on the same file
Reopen ==
    /\ op # "init"
    /\ SetReader(NewReader)
    /\ op' = "init"
    /\ entry' = NewReader
    /\ exc' = "none"
    /\ obj' = None
    /\ arg' = 0
    /\ UNCHANGED <<buf, fkind, archive, scan, export>>

Next ==
    \/ SetEndian
    \/ Seek
    \/ PushBase
    \/ PopBase
    \/ SubTextureRead
    \/ TextureRead
    \/ TextureSetRead
    \/ SpriteSetRead
    \/ ReadInt32
    \/ ReadUint32
    \/ ReadFloat
    \/ ReadBytes
    \/ ReadAtOffset
    \/ Reopen

Spec == Init /\ [][Next]_vars

----------------------------------------------------------------------------
(* The state machine of an archive: FarcArchive.from_file *)

InitFarc ==
    /\ \E file \in FarcFiles : buf = file.b /\ fkind = file.kind
    /\ pos = 0
    /\ endian = NewReader.endian
    /\ base_stack = NewReader.base_stack
    /\ op = "init"
    /\ entry = NewReader
    /\ exc = "none"
    /\ obj = None
    /\ arg = 0
    /\ archive = NewFarcArchive
    /\ scan = NoScan
    /\ export = NoExport

\* archive.parse(f) on the file just opened
FarcParse ==
    /\ op = "init"
    /\ \E res \in {FarcArchive_parse(F, pos, archive)} :
          /\ pos' = res.pos
          /\ exc' = res.exc
          /\ archive' = res.val
    /\ op' = "FarcArchive.parse"
    /\ UNCHANGED <<buf, fkind, endian, base_stack, entry, obj, arg, scan, export>>

\* the file is closed, and opened again for a new FarcArchive
FarcReopen ==
    /\ op # "init"
    /\ pos' = 0
    /\ exc' = "none"
    /\ archive' = NewFarcArchive
    /\ op' = "init"
    /\ obj' = None
    /\ arg' = 0
    /\ UNCHANGED <<buf, fkind, endian, base_stack, entry, scan, export>>

\* archive.extract_entry_data(f, entry) for an entry of the parsed archive
Extract ==
    /\ op \in {"FarcArchive.parse", "extract_entry_data"}
    /\ \E k \in 1..Len(archive.entries) :
          /\ arg' = k
          /\ \E res \in {extract_entry_data(F, archive.entries[k])} :
                /\ pos' = res.pos
                /\ exc' = res.exc
                /\ obj' = [data |-> res.data, gzip |-> res.gzip, log |-> res.log]
    /\ op' = "extract_entry_data"
    /\ UNCHANGED <<buf, fkind, endian, base_stack, entry, archive, scan, export>>

NextFarc ==
    \/ FarcParse
    \/ Extract
    \/ FarcReopen

SpecFarc == InitFarc /\ [][NextFarc]_vars

----------------------------------------------------------------------------
(* Properties of the structured parse calls *)

Opposite(e) == IF e = "<" THEN ">" ELSE "<"

ParseCalls == {"SubTexture.read", "Texture.read", "TextureSet.read", "SpriteSet.read"}

\* the 32-bit field at offset k of the structure the call was entered on,
\* signed and unsigned, in byte order e
FieldAt(k, e) == UnpackI32(WordAt(buf, entry.pos + k), e)

OffsetAt(k, e) == UnpackU32(WordAt(buf, entry.pos + k), e)

\* the structure the call was entered on has its first n bytes in the file
HasBytes(n) == entry.pos + n <= Len(buf)

\* the Reader is set up as SpriteSet.read sets it up for the TextureSet of a
\* file: at the set's position 32, that position being the base, and in
\* byte order e
AtTextureSet(e) ==
    /\ entry.pos = 32
    /\ entry.endian = e
    /\ entry.base_stack # <<>>
    /\ base(entry) = 32

\* the texture_names_offset of a file, whose byte order is e
NamesAt(b, e) == UnpackU32(WordAt(b, 20), e)

\* C1: for every structured parse call, whether it returns or raises, the
\* depth of the base-offset stack at exit equals its depth at entry.
C1_BaseStackBalanced ==
    op \in ParseCalls => Len(base_stack) = Len(entry.base_stack)

\* C2: whenever SubTexture.read returns normally, the length of the stored
\* payload equals the size field it decoded.
C2_PayloadLengthIsSize ==
    (op = "SubTexture.read" /\ exc = "none") => Len(obj.data) = FieldAt(20, endian)

\* C3: after a successful Texture.read, grid cell [i][j] is None exactly when
\* entry i * mip_count + j of the offset table is zero, and otherwise holds
\* the SubTexture decoded at the Texture's start plus that entry, whatever
\* base was active before the call.
C3_GridMatchesOffsetTable ==
    (op = "Texture.read" /\ exc = "none") =>
        \A i \in 0..(obj.array_size - 1) : \A j \in 0..(obj.mip_count - 1) :
            /\ (Cell(obj, i, j) = None)
                   <=> (OffsetAt(12 + 4 * (i * obj.mip_count + j), endian) = 0)
            /\ OffsetAt(12 + 4 * (i * obj.mip_count + j), endian) # 0 =>
                   Cell(obj, i, j) =
                       SubTexture_read(F,
                           [pos |-> entry.pos
                                      + OffsetAt(12 + 4 * (i * obj.mip_count + j), endian),
                            endian |-> endian, base_stack |-> <<>>]).val

\* a 2x2 grid with present and absent cells was decoded from a Texture that
\* does not start at the base active before the call
C3_Witness ==
    /\ op = "Texture.read" /\ exc = "none"
    /\ obj.array_size = 2 /\ obj.mip_count = 2
    /\ Cell(obj, 0, 0) # None /\ Cell(obj, 0, 1) = None /\ Cell(obj, 1, 1) # None
    /\ entry.base_stack = <<0>> /\ entry.pos > 0

\* Texture.read got past the signature and read subcount and the info word
TextureHeaderRead ==
    /\ op = "Texture.read"
    /\ HasBytes(12)
    /\ FieldAt(0, entry.endian) \in {TXP_TEXTURE_SIG_V4, TXP_TEXTURE_SIG_V5}

\* the info word gives array_size 1 and a mip_count that differs from subcount
MipCountCorrected ==
    /\ TextureHeaderRead
    /\ (FieldAt(8, entry.endian) \div 256) % 256 = 1
    /\ FieldAt(8, entry.endian) % 256 # FieldAt(4, entry.endian)

\* C4 (as claimed): when array_size is 1 and subcount N differs from the
\* declared mip_count, the Texture's mip_count after decoding is N, for
\* every N.
C4_MipCountIsSubcount ==
    MipCountCorrected => obj.mip_count = FieldAt(4, entry.endian)

\* C4 (amended): when array_size is 1 and subcount N differs from the
\* declared mip_count, the Texture's mip_count after decoding is N if N >= 1,
\* and 1 otherwise.
C4_MipCountIsFlooredSubcount ==
    MipCountCorrected =>
        obj.mip_count = IF FieldAt(4, entry.endian) >= 1
                        THEN FieldAt(4, entry.endian) ELSE 1

\* a subcount below 1 was corrected to a mip_count of 1
C4_Witness ==
    /\ MipCountCorrected
    /\ FieldAt(4, entry.endian) < 1
    /\ exc = "none"
    /\ obj.mip_count = 1

\* C5: a structurally valid TextureSet decodes to the same object graph from
\* its little-endian and from its big-endian encoding, names included, with
\* a Reader in the byte order it is constructed with.
C5_EndiannessInvariance ==
    \A e \in Endians :
        (/\ op = "TextureSet.read"
         /\ buf = NamedSet(e)
         /\ AtTextureSet(NewReader.endian)
         /\ arg = NamesAt(NamedSet(e), e)) =>
            /\ exc = "none"
            /\ obj = TextureSet_read([b |-> NamedSet(Opposite(e)), kind |-> fkind],
                                     entry, arg).val

\* C6: TextureSet.read succeeds on a TextureSet whose signature matches only
\* in the byte order opposite to the Reader's, whichever byte order the
\* Reader had on entry, and decodes the structure in the flipped byte order.
C6_SignatureRetryFlips ==
    \A e \in Endians :
        (/\ op = "TextureSet.read"
         /\ buf = NamedSet(e)
         /\ AtTextureSet(Opposite(e))) =>
            /\ exc = "none"
            /\ endian = e
            /\ Len(obj.textures) = 2

\* the signature a call accepts
Accepted(name) ==
    IF name = "Texture.read" THEN {TXP_TEXTURE_SIG_V4, TXP_TEXTURE_SIG_V5}
    ELSE {TXP_SUBTEXTURE_SIG}

\* Texture.read or SubTexture.read was entered on four bytes that are no
\* accepted signature in the Reader's byte order
SignatureMismatch ==
    /\ op \in {"Texture.read", "SubTexture.read"}
    /\ HasBytes(4)
    /\ FieldAt(0, entry.endian) \notin Accepted(op)

\* C7 (as claimed): Texture.read and SubTexture.read raise no signature
\* error on a first mismatch when the four bytes are an accepted signature
\* in the other byte order: the Reader is flipped and the bytes re-read.
C7_MismatchIsRetried ==
    (SignatureMismatch /\ FieldAt(0, Opposite(entry.endian)) \in Accepted(op)) =>
        /\ exc # "ValueError"
        /\ endian = Opposite(entry.endian)

\* C7 (amended): Texture.read and SubTexture.read raise the signature error
\* on the first mismatch: the byte order is left as it was, the four bytes
\* are read once, and the base stack is as on entry.
C7_MismatchRaisesAtOnce ==
    SignatureMismatch =>
        /\ exc = "ValueError"
        /\ endian = entry.endian
        /\ pos = entry.pos + 4
        /\ base_stack = entry.base_stack

\* a signature that is accepted only in the other byte order was rejected
C7_Witness ==
    /\ SignatureMismatch
    /\ FieldAt(0, Opposite(entry.endian)) \in Accepted(op)
    /\ op = "Texture.read"
    /\ exc = "ValueError"

\* C8 (as claimed): SpriteSet.read checks the first word against zero: on a
\* buffer whose first word is not zero it does not return normally (so that
\* no sprites and no texture set are decoded).
C8_NonzeroSignatureRejected ==
    (op = "SpriteSet.read" /\ HasBytes(4) /\ FieldAt(0, entry.endian) # TXP_SPRITESET_SIG) =>
        exc # "none"

\* C8 (amended): SpriteSet.read reads the first word and compares it with
\* nothing: the only ValueError it raises comes out of the texture set it
\* decodes, and a file whose first word is not zero is decoded as the same
\* file with a zero first word is.
C8_SignatureNotChecked ==
    op = "SpriteSet.read" =>
        /\ exc = "ValueError" => obj.texture_set # None
        /\ \A e \in Endians :
               (buf = NonzeroSig(e) /\ entry.pos = 0) =>
                   [r |-> R, exc |-> exc, val |-> obj]
                       = SpriteSet_read([b |-> NamedSet(e), kind |-> fkind], entry)

\* a file whose first word is not zero was decoded to sprites and a texture
\* set
C8_Witness ==
    /\ op = "SpriteSet.read"
    /\ HasBytes(4)
    /\ FieldAt(0, entry.endian) # TXP_SPRITESET_SIG
    /\ exc = "none"
    /\ Len(obj.sprites) = 2
    /\ obj.texture_set # None
    /\ Len(obj.texture_set.textures) = 2

\* the number of nonzero entries among the first k + 1 entries of the
\* texture offset table: where the Texture of entry k lies in textures
RECURSIVE Decoded(_)
Decoded(k) ==
    IF k < 0 THEN 0
    ELSE Decoded(k - 1) + (IF OffsetAt(12 + 4 * k, endian) # 0 THEN 1 ELSE 0)

\* C9: after TextureSet.read with a names-table position, for every index i
\* below tex_count whose names-table entry is not zero, the string at that
\* entry is the name of the Texture decoded from entry i of the offset
\* table, also when an earlier entry of the offset table is zero.  (Stated
\* for little-endian sets, whose names table every reading decodes alike.)
C9_NamesFollowOffsetTable ==
    (op = "TextureSet.read" /\ exc = "none" /\ arg # 0 /\ endian = "<") =>
        \A i \in 0..(FieldAt(4, endian) - 1) :
            (/\ UnpackU32(WordAt(buf, arg + 4 * i), endian) # 0
             /\ OffsetAt(12 + 4 * i, endian) # 0) =>
                obj.textures[Decoded(i)].name =
                    Str(read_cstring(buf,
                            UnpackU32(WordAt(buf, arg + 4 * i), endian)).s)

----------------------------------------------------------------------------
(* parse_txd: the root dispatch and the recovery scan *)

TextureSigs == {TXP_TEXTURE_SIG_V4, TXP_TEXTURE_SIG_V5}

\* the elements of a set of numbers, ascending: sorted(set(hits))
RECURSIVE Sorted(_)
Sorted(S) ==
    IF S = {} THEN <<>>
    ELSE <<CHOOSE p \in S : \A q \in S : p <= q>>
            \o Sorted(S \ {CHOOSE p \in S : \A q \in S : p <= q})

\* whether the four bytes raw are one of sigs when unpacked in order e
Matches(raw, e, sigs) == UnpackU32(raw, e) \in sigs

\* the byte order the root dispatch selects for a structure whose signature
\* is one of sigs: big-endian only if the little-endian reading is not one
RootEndian(r, raw, sigs) ==
    IF Matches(raw, ">", sigs) /\ ~Matches(raw, "<", sigs) THEN set_endian(r, FALSE)
    ELSE r

\* the structure the root dispatch reads for the four bytes raw
RootKind(raw) ==
    IF \E e \in Endians : Matches(raw, e, {TXP_TEXSET_SIG}) THEN "TextureSet"
    ELSE IF \E e \in Endians : Matches(raw, e, TextureSigs) THEN "Texture"
    ELSE IF \E e \in Endians : Matches(raw, e, {TXP_SUBTEXTURE_SIG}) THEN "SubTexture"
    ELSE "scan"

\* the read call of the structure named kind
ReadKind(f, r, kind) ==
    IF kind = "TextureSet" THEN TextureSet_read(f, r, 0)
    ELSE IF kind = "Texture" THEN Texture_read(f, r)
    ELSE SubTexture_read(f, r)

\* CandidateEndian that keeps the byte order the Reader was left in
CandidateEndian_Kept(r, raw) == r.endian

\* the byte order the scan selects for the candidate whose four bytes are
\* raw; "continue" when they are a signature in neither order
CandidateEndian(r, raw) ==
    IF Matches(raw, "<", ValidSigs) /\ ~Matches(raw, ">", ValidSigs) THEN "<"
    ELSE IF Matches(raw, ">", ValidSigs) /\ ~Matches(raw, "<", ValidSigs) THEN ">"
    ELSE IF Matches(raw, "<", ValidSigs) THEN "<"
    ELSE IF Matches(raw, ">", ValidSigs) THEN ">"
    ELSE "continue"

\* the structure the scan reads for the signature sig it read
CandidateKind(sig) ==
    IF sig = TXP_TEXSET_SIG THEN "TextureSet"
    ELSE IF sig \in TextureSigs THEN "Texture"
    ELSE IF sig = TXP_SUBTEXTURE_SIG THEN "SubTexture"
    ELSE "none"

\* the finally clause of the scan: r.pop_base(), an IndexError ignored
PopQuietly(r) == IF Len(r.base_stack) = 0 THEN r ELSE pop_base(r)

\* what one pass of the scan loop records: the offset, the Reader as the
\* decoder was entered, the exception caught, the object read, and whether
\* found_any was incremented
Attempt(off, entered, res, counted) ==
    [off |-> off, entered |-> entered, exc |-> res.exc, val |-> res.val,
     r |-> PopQuietly(res.r), found |-> IF counted THEN 1 ELSE 0]

\* the try block of the scan loop after the byte order was selected
ScanDecode(f, r, off) ==
    Bind(read_int32(f, push_base(seek(r, off), off)), LAMBDA sig :
    IF sig.exc # "none" THEN Attempt(off, sig.r, sig, FALSE)
    ELSE IF CandidateKind(sig.val) = "none"
    THEN Attempt(off, sig.r, Ok(sig.r, None), FALSE)
    ELSE Bind(ReadKind(f, seek(sig.r, off), CandidateKind(sig.val)), LAMBDA res :
         Attempt(off, seek(sig.r, off), res, res.exc = "none")))

\* one pass of the scan loop for the candidate at off
ScanCandidate(f, r, off) ==
    IF CandidateEndian(r, WordAt(f.b, off)) = "continue"
    THEN Attempt(off, r, Ok(r, None), FALSE)
    ELSE ScanDecode(f, set_endian(r, CandidateEndian(r, WordAt(f.b, off)) = "<"), off)

\* ScanOutcome that lets parse_txd return whatever the count
ScanOutcome_Lenient(found_any) == "none"

\* the end of the scan: an error if no candidate was parsed
ScanOutcome(found_any) == IF found_any = 0 THEN "ValueError" ELSE "none"

\* the signatures of the structure named kind
KindSigs(kind) ==
    IF kind = "TextureSet" THEN {TXP_TEXSET_SIG}
    ELSE IF kind = "Texture" THEN TextureSigs
    ELSE {TXP_SUBTEXTURE_SIG}

\* how parse_txd stands after a step: the Reader, the operation reached
\* ("parse_txd" once it has returned or raised), the exception, the object
\* read at the root, and the scan
Txd(r, at, e, v, sc) == [r |-> r, op |-> at, exc |-> e, val |-> v, scan |-> sc]

\* the root structure was recognised and is read
TxdRoot(f, r, raw) ==
    Bind(ReadKind(f, RootEndian(r, raw, KindSigs(RootKind(raw))), RootKind(raw)),
         LAMBDA res : Txd(res.r, "parse_txd", res.exc, res.val, NoScan))

\* the scan starts: the whole file is searched for the signatures
TxdScan(f, r, hits) ==
    IF hits = <<>> THEN Txd(seek(r, Len(f.b)), "parse_txd", "ValueError", None, NoScan)
    ELSE Txd(seek(r, Len(f.b)), "parse_txd.scan", "none", None,
             [hits |-> hits, log |-> <<>>, found_any |-> 0])

\* parse_txd up to the first pass of the scan loop
TxdStart(f, r) ==
    Bind(fread(f.b, f.kind, r.pos, 4), LAMBDA raw :
    IF Len(raw.data) < 4
    THEN Txd(seek(r, raw.pos), "parse_txd", "ValueError", None, NoScan)
    ELSE IF RootKind(raw.data) # "scan" THEN TxdRoot(f, r, raw.data)
    ELSE TxdScan(f, r, Sorted(Hits(f.b, ValidSigs))))

\* the scan after the pass a on its first hit: the last pass is followed by
\* the check of found_any
TxdAfter(sc, a) ==
    Txd(a.r,
        IF Len(sc.hits) = 1 THEN "parse_txd" ELSE "parse_txd.scan",
        IF Len(sc.hits) = 1 THEN ScanOutcome(sc.found_any + a.found) ELSE "none",
        None,
        [hits |-> Tail(sc.hits),
         log |-> Append(sc.log, [off |-> a.off, entered |-> a.entered,
                                 exc |-> a.exc, val |-> a.val]),
         found_any |-> sc.found_any + a.found])

\* one pass of the scan loop, on the first hit left
TxdStep(f, r, sc) == TxdAfter(sc, ScanCandidate(f, r, Head(sc.hits)))

----------------------------------------------------------------------------
(* Input buffers of parse_txd *)

\* a word that is no signature in either byte order, then a Texture whose
\* only SubTexture lies far beyond the end of the file
BrokenTexture(e) == Words(<<7, TXP_TEXTURE_SIG_V5, 1, 257, 4000>>, e)

\* a SubTexture whose header says 100 payload bytes and that has 2
ShortSubTexture(e) == SubTextureImage(e, TXP_SUBTEXTURE_SIG, 3, 100, 2)

\* a SubTexture that ends inside its header
CutSubTexture(e) == Cut(SubTextureImage(e, TXP_SUBTEXTURE_SIG, 4, 2, 2), 12)

GoodSubTexture(e) == SubTextureImage(e, TXP_SUBTEXTURE_SIG, 1, 2, 2)

TxdBuffers ==
    TxpBuffers \cup NegativeSizeBuffers
    \cup {<<>>, <<84, 88>>, Bytes(8, 0), Bytes(12, 7)}
    \cup UNION {
          { TextureSetImage(e, TXP_TEXSET_SIG, 2, <<TexA(e), TexB(e)>>),
            Cut(TextureSetImage(e, TXP_TEXSET_SIG, 2, <<TexA(e), TexB(e)>>), 60),
            TexA(e), TexF(e), Cut(TexA(e), 20),
            GoodSubTexture(e), ShortSubTexture(e), CutSubTexture(e),
            Bytes(8, 0) \o GoodSubTexture(e),
            Bytes(8, 0) \o CutSubTexture(e),
            Bytes(8, 0) \o Words(<<TXP_TEXSET_SIG>>, e),
            BrokenTexture(e),
            BrokenTexture(e) \o CutSubTexture(e),
            Bytes(8, 0) \o GoodSubTexture(e) \o ShortSubTexture(e),
            Bytes(8, 0) \o TexA(e) }
          \cup { BrokenTexture(e) \o GoodSubTexture(d) \o CutSubTexture(e) : d \in Endians }
          \cup { Bytes(4, 0) \o CutSubTexture(e) \o BrokenTexture(d) \o GoodSubTexture(e) :
                   d \in Endians }
          : e \in Endians }

TxdFiles == {[b |-> b, kind |-> "BufferedReader"] : b \in TxdBuffers}

----------------------------------------------------------------------------
(* The state machine of parse_txd *)

InitTxd ==
    /\ \E file \in TxdFiles : buf = file.b /\ fkind = file.kind
    /\ pos = NewReader.pos
    /\ endian = NewReader.endian
    /\ base_stack = NewReader.base_stack
    /\ op = "init"
    /\ entry = NewReader
    /\ exc = "none"
    /\ obj = None
    /\ arg = 0
    /\ archive = NewFarcArchive
    /\ scan = NoScan
    /\ export = NoExport

\* parse_txd has taken a step and stands at t
TxdAt(t) ==
    /\ SetReader(t.r)
    /\ op' = t.op
    /\ exc' = t.exc
    /\ obj' = t.val
    /\ scan' = t.scan
    /\ UNCHANGED <<buf, fkind, entry, arg, archive, export>>

\* parse_txd(path) up to the scan loop
ParseTxd ==
    /\ op = "init"
    /\ TxdAt(TxdStart(F, R))

\* one pass of the scan loop; the last one ends parse_txd
ScanNext ==
    /\ op = "parse_txd.scan"
    /\ TxdAt(TxdStep(F, R, scan))

NextTxd ==
    \/ ParseTxd
    \/ ScanNext

SpecTxd == InitTxd /\ [][NextTxd]_vars

----------------------------------------------------------------------------
(* export_sprites_to_png *)

\* the exponent field of the float with the bit pattern bits
FloatExponent(bits) == (bits \div 8388608) % 256

\* neither NaN nor an infinity
IsFinite(bits) == FloatExponent(bits) # 255

\* abs(int(x)) of a finite float, Far standing for anything from 2^28 on
FloatMagnitude(bits) ==
    IF FloatExponent(bits) < 127 THEN 0
    ELSE IF FloatExponent(bits) > 154 THEN Far
    ELSE IF FloatExponent(bits) >= 150
    THEN Min(Far, ((bits % 8388608) + 8388608) * 2^(FloatExponent(bits) - 150))
    ELSE ((bits % 8388608) + 8388608) \div 2^(150 - FloatExponent(bits))

\* int(x) of a finite float
int_of_float(bits) == IF bits < 0 THEN -FloatMagnitude(bits) ELSE FloatMagnitude(bits)

\* what int(x) raises: ValueError on a NaN, OverflowError on an infinity
IntError(bits) ==
    IF IsFinite(bits) THEN "none"
    ELSE IF bits % 8388608 # 0 THEN "ValueError"
    ELSE "OverflowError"

Image(width, height) == [kind |-> "Image", width |-> width, height |-> height]

\* whether the payload of a SubTexture holds every 4x4 block of its format
DxtComplete(st) ==
    /\ st.width > 0
    /\ st.height > 0
    /\ Len(st.data) >= ((st.width + 3) \div 4) * ((st.height + 3) \div 4)
                          * (IF st.format = 6 THEN 8 ELSE 16)

\* decode_dxt_to_image: the outcomes it can have.  The block decoders and
\* the array reshape are library code: on a payload that holds every block
\* they return the image, on any other their outcome is left open.
decode_dxt_to_image(st) ==
    IF st.format \notin {6, 9} THEN {Raise(None, "ValueError", None)}
    ELSE IF DxtComplete(st) THEN {Ok(None, Image(st.width, st.height))}
    ELSE {Ok(None, Image(st.width, st.height)), Raise(None, "Exception", None)}

\* Texture.get_base_texture_image
get_base_texture_image(tex) ==
    IF Len(tex.subtextures) > 0 /\ Cell(tex, 0, 0) # None
    THEN decode_dxt_to_image(Cell(tex, 0, 0))
    ELSE {Ok(None, None)}

\* a SpriteSet that export_sprites_to_png accepts
Usable(res) ==
    /\ res.exc = "none"
    /\ Len(res.val.sprites) > 0
    /\ res.val.texture_set # None

\* the loop over (True, False): the first byte order in which SpriteSet.read
\* returns a SpriteSet with sprites and a TextureSet
ExportParse(f) ==
    Bind(SpriteSet_read(f, set_endian(NewReader, TRUE)), LAMBDA little :
    IF Usable(little) THEN little
    ELSE Bind(SpriteSet_read(f, set_endian(NewReader, FALSE)), LAMBDA big :
         IF Usable(big) THEN big ELSE Ok(big.r, None)))

\* texture_images[tex_idx] is an image
Available(texture_images, tex_idx) ==
    /\ tex_idx < Len(texture_images)
    /\ texture_images[tex_idx + 1] # None

\* str(n) of a natural number, as code points
RECURSIVE Decimal(_)
Decimal(n) == IF n < 10 THEN <<48 + n>> ELSE Append(Decimal(n \div 10), 48 + (n % 10))

\* f"sprite_{texture_index}_{ordinal}", as code points
DefaultName(texture_index, ordinal) ==
    <<115, 112, 114, 105, 116, 101, 95>> \o Decimal(texture_index)
        \o <<95>> \o Decimal(ordinal)

\* whether sprite.name is falsy: None or the empty string
Unnamed(sprite) == IF sprite.name = None THEN TRUE ELSE sprite.name.s = <<>>

\* SpriteName with the ordinal left at 0
SpriteName_FirstOrdinal(sprite, exported) ==
    IF Unnamed(sprite) THEN DefaultName(sprite.texture_index, 0) ELSE sprite.name.s

\* sprite.name or f"sprite_{sprite.texture_index}_{len(exported)}"
SpriteName(sprite, exported) ==
    IF Unnamed(sprite) THEN DefaultName(sprite.texture_index, Len(exported))
    ELSE sprite.name.s

\* the first exception the four int() conversions of crop_from_texture raise
CropError(sprite) ==
    IF IntError(sprite.x) # "none" THEN IntError(sprite.x)
    ELSE IF IntError(sprite.y) # "none" THEN IntError(sprite.y)
    ELSE IF IntError(sprite.width) # "none" THEN IntError(sprite.width)
    ELSE IntError(sprite.height)

\* CropOutcomes of a crop and save that never fail
CropOutcomes_Saved(sprite) == {"none"}

\* the outcomes of crop_from_texture and save for a sprite whose texture is
\* available: the exception of an int() conversion; no exception for a
\* rectangle of positive size; left open for any other rectangle, which is
\* the imaging library's to accept or reject
CropOutcomes(sprite) ==
    IF CropError(sprite) # "none" THEN {CropError(sprite)}
    ELSE IF /\ int_of_float(sprite.width) \in 1..(Far - 1)
            /\ int_of_float(sprite.height) \in 1..(Far - 1)
            /\ FloatMagnitude(sprite.x) < Far
            /\ FloatMagnitude(sprite.y) < Far
    THEN {"none"}
    ELSE {"none", "Exception"}

\* one pass of the texture loop: the image, or None for a texture without
\* one or whose decoding raised
AfterTexture(ex, outcome) ==
    [ex EXCEPT !.texture_images =
        Append(@, IF outcome.exc = "none" THEN outcome.val ELSE None)]

\* one pass of the sprite loop on sprite number i (1-based), the crop and
\* save ending in outcome
AfterSprite(ex, sprite, i, outcome) ==
    IF ~Available(ex.texture_images, sprite.texture_index)
    THEN [ex EXCEPT !.next = i + 1, !.skipped = Append(@, i)]
    ELSE IF outcome # "none"
    THEN [ex EXCEPT !.next = i + 1, !.failed = Append(@, i)]
    ELSE [ex EXCEPT !.next = i + 1,
                    !.exported = Append(@, [sprite |-> i,
                                            name |-> SpriteName(sprite, ex.exported)])]

----------------------------------------------------------------------------
(* Input buffers of export_sprites_to_png *)

\* a SubTexture of the given size and format with n payload bytes
SubTextureBytes(e, width, height, format, n) ==
    Words(<<TXP_SUBTEXTURE_SIG, width, height, format, 0, n>>, e) \o Bytes(n, 170)

\* a Texture of one 4x4 SubTexture in DXT5 with its one block
Dxt5Texture(e) ==
    TableImage(e, <<TXP_TEXTURE_SIG_V5, 1, 257>>, <<SubTextureBytes(e, 4, 4, 9, 16)>>)

\* Textures of one SubTexture: 4x4 in DXT1 and in DXT5 with every block, 4x4
\* in a format that is not supported, 8x8 in DXT1 with 2 payload bytes; and
\* a Texture of array size 2 whose base SubTexture is absent
ExportTextureKinds(e) ==
    {TableImage(e, <<TXP_TEXTURE_SIG_V4, 1, 257>>, <<SubTextureBytes(e, 4, 4, 6, 8)>>),
     Dxt5Texture(e),
     TableImage(e, <<TXP_TEXTURE_SIG_V4, 1, 257>>, <<SubTextureBytes(e, 4, 4, 7, 8)>>),
     TableImage(e, <<TXP_TEXTURE_SIG_V4, 1, 257>>, <<SubTextureBytes(e, 8, 8, 6, 2)>>),
     TableImage(e, <<TXP_TEXTURE_SIG_V4, 2, 513>>,
                <<<<>>, SubTextureBytes(e, 4, 4, 6, 8)>>)}

\* no Texture, one, or the DXT5 Texture and one more
ExportTextureLists(e) ==
    {<<>>} \cup {<<t>> : t \in ExportTextureKinds(e)}
           \cup {<<Dxt5Texture(e), t>> : t \in ExportTextureKinds(e)}

\* a Sprite record <<texture_index, x>>: y is 0.0, width and height are 2.0
SpriteWords(e, sp) ==
    Words(<<sp[1], 0, 0, 0, 1065353216, 1065353216, sp[2], 0,
            1073741824, 1073741824>>, e)

\* texture index 0, 1 or 3 with x = 1.0; index 0 with x = NaN; index 1 with
\* x = +infinity
SpriteChoices ==
    {<<0, 1065353216>>, <<1, 1065353216>>, <<3, 1065353216>>,
     <<0, 2143289344>>, <<1, 2139095040>>}

MaxSprites == 3

\* a SpriteSet file: header, TextureSet at 32, then the sprite records
ExportImage(e, textures, sprites) ==
    Words(<<0, 32, 0, Len(sprites),
            32 + Len(TextureSetImage(e, TXP_TEXSET_SIG, Len(textures), textures)),
            0, 0, 0>>, e)
        \o TextureSetImage(e, TXP_TEXSET_SIG, Len(textures), textures)
        \o Flatten([k \in 1..Len(sprites) |-> SpriteWords(e, sprites[k])])

NameCover == <<99, 111, 118, 101, 114>>

\* the name table entries of a sprite: none, "cover", "sprite_0_1"
NameChoices == {<<>>, NameCover, DefaultName(0, 1)}

\* a SpriteSet file of the DXT5 Texture and the given sprites, whose name
\* table follows the sprite records
NamedExportImage(e, sprites, names) ==
    LET ts == TextureSetImage(e, TXP_TEXSET_SIG, 1, <<Dxt5Texture(e)>>)
        sp == Flatten([k \in 1..Len(sprites) |-> SpriteWords(e, sprites[k])])
    IN  Words(<<0, 32, 0, Len(sprites), 32 + Len(ts), 0, 32 + Len(ts) + Len(sp), 0>>, e)
            \o ts \o sp \o NameTableImage(e, 32 + Len(ts) + Len(sp), names)

\* files of two sprites, each on texture 0 or 3 or with a NaN x, each with
\* a name table entry
NamedExportBuffers ==
    {NamedExportImage(e, sprites, names) :
        e \in Endians,
        sprites \in [1..2 -> {<<0, 1065353216>>, <<3, 1065353216>>, <<0, 2143289344>>}],
        names \in [1..2 -> NameChoices]}

ExportBuffers ==
    UNION {
      {ExportImage(e, textures, sprites) :
          textures \in ExportTextureLists(e),
          sprites \in UNION {[1..n -> SpriteChoices] : n \in 1..MaxSprites}}
      \cup {NamedSet(e), SparseSet(e), Plain(e, <<TexA(e)>>), Cut(NamedSet(e), 40),
            ExportImage(e, <<>>, <<>>)}
      : e \in Endians }

ExportFiles == {[b |-> b, kind |-> "BytesIO"] : b \in ExportBuffers \cup NamedExportBuffers}

----------------------------------------------------------------------------
(* The state machine of export_sprites_to_png *)

InitExport ==
    /\ \E file \in ExportFiles : buf = file.b /\ fkind = file.kind
    /\ pos = NewReader.pos
    /\ endian = NewReader.endian
    /\ base_stack = NewReader.base_stack
    /\ op = "init"
    /\ entry = NewReader
    /\ exc = "none"
    /\ obj = None
    /\ arg = 0
    /\ archive = NewFarcArchive
    /\ scan = NoScan
    /\ export = NoExport

\* the operation export_sprites_to_png is at once it holds the SpriteSet ss
\* and has handled the textures and sprites of ex
ExportAt(ss, ex) ==
    IF ss = None THEN "export_sprites_to_png"
    ELSE IF Len(ex.texture_images) < Len(ss.texture_set.textures) THEN "export.textures"
    ELSE IF ex.next <= Len(ss.sprites) THEN "export.sprites"
    ELSE "export_sprites_to_png"

\* export_sprites_to_png up to the texture loop: the file is read and parsed
ExportStart ==
    /\ op = "init"
    /\ \E res \in {ExportParse(F)} :
          /\ SetReader(res.r)
          /\ obj' = res.val
          /\ op' = ExportAt(res.val, NoExport)
    /\ UNCHANGED <<buf, fkind, entry, exc, arg, archive, scan, export>>

\* one pass of the texture loop
ExportTexture ==
    /\ op = "export.textures"
    /\ \E outcome \in get_base_texture_image(
                         obj.texture_set.textures[Len(export.texture_images) + 1]) :
          /\ export' = AfterTexture(export, outcome)
          /\ op' = ExportAt(obj, AfterTexture(export, outcome))
    /\ UNCHANGED <<buf, fkind, pos, endian, base_stack, entry, exc, obj, arg, archive,
                   scan>>

\* one pass of the sprite loop; the last one ends export_sprites_to_png
ExportSprite ==
    /\ op = "export.sprites"
    /\ \E outcome \in CropOutcomes(obj.sprites[export.next]) :
          /\ export' = AfterSprite(export, obj.sprites[export.next], export.next, outcome)
          /\ op' = ExportAt(obj, AfterSprite(export, obj.sprites[export.next],
                                             export.next, outcome))
    /\ UNCHANGED <<buf, fkind, pos, endian, base_stack, entry, exc, obj, arg, archive,
                   scan>>

NextExport ==
    \/ ExportStart
    \/ ExportTexture
    \/ ExportSprite

SpecExport == InitExport /\ [][NextExport]_vars

----------------------------------------------------------------------------
(* Sprite.crop_from_texture *)

\* an image of width x height pixels; px maps <<column, row>>, counted from
\* the top left corner, to the pixel there
Picture(width, height, px) ==
    [kind |-> "Image", width |-> width, height |-> height, px |-> px]

Positions(width, height) == (0..(width - 1)) \X (0..(height - 1))

\* transpose that leaves the image as it is
transpose_Kept(img) == img

\* texture_image.transpose(Image.Transpose.FLIP_TOP_BOTTOM)
transpose(img) ==
    Picture(img.width, img.height,
            [p \in Positions(img.width, img.height) |->
                img.px[<<p[1], img.height - 1 - p[2]>>]])

\* the region [x1, x2) x [y1, y2) of img; positions outside img are blank
Region(img, x1, y1, x2, y2) ==
    Picture(Max(0, x2 - x1), Max(0, y2 - y1),
            [p \in Positions(Max(0, x2 - x1), Max(0, y2 - y1)) |->
                IF <<x1 + p[1], y1 + p[2]>> \in Positions(img.width, img.height)
                THEN img.px[<<x1 + p[1], y1 + p[2]>>]
                ELSE 0])

\* texture_image.crop((x1, y1, x2, y2)): the region.  A box whose right or
\* lower edge lies before its left or upper edge is rejected with a
\* ValueError or taken as empty, depending on the imaging library's version;
\* a box with a coordinate from 2^28 on may be rejected for its size.
crop(img, x1, y1, x2, y2) ==
    IF \E v \in {x1, y1, x2, y2} : v >= Far \/ v <= -Far
    THEN {Raise(None, "Exception", None)}
             \cup (IF x2 - x1 \in 0..2 /\ y2 - y1 \in 0..2
                   THEN {Ok(None, Region(img, x1, y1, x2, y2))} ELSE {})
    ELSE IF x2 < x1 \/ y2 < y1
    THEN {Raise(None, "ValueError", None), Ok(None, Region(img, x1, y1, x2, y2))}
    ELSE {Ok(None, Region(img, x1, y1, x2, y2))}

\* Sprite.crop_from_texture: the outcomes it can have
crop_from_texture(sprite, texture_image) ==
    IF texture_image = None THEN {Ok(None, None)}
    ELSE IF CropError(sprite) # "none" THEN {Raise(None, CropError(sprite), None)}
    ELSE crop(transpose(texture_image),
              int_of_float(sprite.x), int_of_float(sprite.y),
              int_of_float(sprite.x) + int_of_float(sprite.width),
              int_of_float(sprite.y) + int_of_float(sprite.height))

----------------------------------------------------------------------------
(* Inputs of crop_from_texture *)

\* an image whose pixels all differ and none of which is blank
Numbered(width, height) ==
    Picture(width, height,
            [p \in Positions(width, height) |-> 1 + p[1] + width * p[2]])

\* bit patterns of 0.0, 1.0, 1.5, 2.0, -1.0, -0.5, NaN and +infinity
FloatChoices ==
    {0, 1065353216, 1069547520, 1073741824, -1082130432, -1090519040,
     2143289344, 2139095040}

\* a Sprite with the given x, y, width and height
SpriteAt(x, y, width, height) ==
    [kind |-> "Sprite", texture_index |-> 0, rect_begin |-> <<0, 0>>,
     rect_end |-> <<0, 0>>, x |-> x, y |-> y, width |-> width, height |-> height,
     name |-> None]

\* sprites over the float choices on no image, a 3x2 and a 2x3 image; and
\* the sprite x=10, y=5, width=20, height=15 on a 128x128 image
CropInputs ==
    {[sprite |-> SpriteAt(x, y, w, h), texture_image |-> img] :
        x \in FloatChoices, y \in FloatChoices, w \in FloatChoices, h \in FloatChoices,
        img \in {None, Numbered(3, 2), Numbered(2, 3)}}
    \cup {[sprite |-> SpriteAt(1092616192, 1084227584, 1101004800, 1097859072),
           texture_image |-> Numbered(128, 128)]}

----------------------------------------------------------------------------
(* The state machine of crop_from_texture *)

InitCrop ==
    /\ buf = <<>>
    /\ fkind = "BytesIO"
    /\ pos = NewReader.pos
    /\ endian = NewReader.endian
    /\ base_stack = NewReader.base_stack
    /\ op = "init"
    /\ entry = NewReader
    /\ exc = "none"
    /\ obj = None
    /\ arg \in CropInputs
    /\ archive = NewFarcArchive
    /\ scan = NoScan
    /\ export = NoExport

\* sprite.crop_from_texture(texture_image)
Crop ==
    /\ op = "init"
    /\ \E res \in crop_from_texture(arg.sprite, arg.texture_image) :
          /\ obj' = res.val
          /\ exc' = res.exc
    /\ op' = "crop_from_texture"
    /\ UNCHANGED <<buf, fkind, pos, endian, base_stack, entry, arg, archive, scan,
                   export>>

NextCrop == Crop

SpecCrop == InitCrop /\ [][NextCrop]_vars

----------------------------------------------------------------------------
(* The parse calls, one loop pass at a time.  A call in progress is a frame:
   the function, the phase it is in, its loop counters and the values it
   keeps between passes.  The frames of the calls in progress form a stack,
   the innermost call last. *)

Frame(fn, phase) ==
    [fn |-> fn, phase |-> phase, i |-> 0, j |-> 0, n |-> 0, m |-> 0, k |-> 1,
     offs |-> <<>>, cur |-> 0, ret |-> 0, names |-> 0, h |-> None, count |-> 0,
     which |-> "none", flag |-> FALSE]

\* what a pass leaves: the Reader, the exception raised, and the frames that
\* take the place of the frame that ran: none when the call returned, the
\* frame itself when it goes on, the frame and a callee's on a call
Out(r, e, frames) == [r |-> r, exc |-> e, frames |-> frames]

\* x, then K on its result; the exception of x ends the call
Then(x, K(_)) ==
    Bind(x, LAMBDA v : IF v.exc # "none" THEN Out(v.r, v.exc, <<>>) ELSE K(v))

\* the next value of a loop counter that stays where it is
NextPass_Stuck(i) == i

\* the next value of a loop counter
NextPass(i) == i + 1

\* SubTexture.read: it has no loop
SubTexturePass(f, r, fr) ==
    Bind(SubTexture_read(f, r), LAMBDA st : Out(st.r, st.exc, <<>>))

\* Texture.read up to its loops
TextureHead(f, r, fr) ==
    Bind(ReadSignature(f, push_base(r, TextureBase(r)), TextureSigs), LAMBDA sig :
    IF sig.exc = "ValueError" THEN Out(pop_base(sig.r), "ValueError", <<>>)
    ELSE
    Then(sig, LAMBDA sig_ok :
    Then(read_int32(f, sig_ok.r), LAMBDA subcount :
    Then(read_int32(f, subcount.r), LAMBDA info :
    Out(info.r, "none",
        <<[fr EXCEPT !.phase = "cells",
                     !.n = GridDim((info.val \div 256) % 256),
                     !.m = GridDim(CorrectedMipCount((info.val \div 256) % 256,
                                                     info.val % 256,
                                                     subcount.val))]>>)))))

\* one pass of the loops over (i, j) of Texture.read
TextureCell(f, r, fr) ==
    IF fr.i >= fr.n THEN Out(pop_base(r), "none", <<>>)
    ELSE IF fr.j >= fr.m
    THEN Out(r, "none", <<[fr EXCEPT !.i = NextPass(fr.i), !.j = 0]>>)
    ELSE
    Then(read_offset(f, r), LAMBDA offset :
    IF offset.val = 0
    THEN Out(offset.r, "none", <<[fr EXCEPT !.j = NextPass(fr.j)]>>)
    ELSE
    Then(SubTexture_read(f, seek(offset.r, base(offset.r) + offset.val)), LAMBDA st :
    Out(seek(st.r, offset.r.pos), "none", <<[fr EXCEPT !.j = NextPass(fr.j)]>>)))

TexturePass(f, r, fr) ==
    IF fr.phase = "head" THEN TextureHead(f, r, fr) ELSE TextureCell(f, r, fr)

\* TextureSet.read up to its loops
TextureSetHead(f, r, fr) ==
    Then(TextureSetSignature(f, r), LAMBDA sig :
    Then(read_int32(f, sig.r), LAMBDA tex_count :
    Then(read_int32(f, tex_count.r), LAMBDA rubbish :
    Out(rubbish.r, "none",
        <<[fr EXCEPT !.phase = "offsets", !.n = tex_count.val]>>))))

\* one pass of [r.read_offset() for _ in range(tex_count)]
TextureSetOffset(f, r, fr) ==
    IF fr.i >= fr.n THEN Out(r, "none", <<[fr EXCEPT !.phase = "textures"]>>)
    ELSE Then(read_offset(f, r), LAMBDA o :
         Out(o.r, "none", <<[fr EXCEPT !.i = NextPass(fr.i),
                                       !.offs = Append(@, o.val)]>>))

\* one pass of for off in offsets; the Texture.read it calls ends with the
\* r.seek(cur) of the pass
TextureSetTexture(f, r, fr) ==
    IF fr.k > Len(fr.offs)
    THEN IF fr.names = 0 THEN Out(r, "none", <<>>)
         ELSE Out(seek(r, fr.names), "none",
                  <<[fr EXCEPT !.phase = "name_offsets", !.i = 0, !.offs = <<>>,
                               !.ret = r.pos]>>)
    ELSE IF fr.offs[fr.k] = 0 THEN Out(r, "none", <<[fr EXCEPT !.k = NextPass(fr.k)]>>)
    ELSE IF Len(r.base_stack) = 0 THEN Out(r, "IndexError", <<>>)
    ELSE Out(seek(r, base(r) + fr.offs[fr.k]), "none",
             <<[fr EXCEPT !.phase = "texture_read", !.cur = r.pos],
               Frame("Texture.read", "head")>>)

\* one pass of the loop that unpacks the name offsets
TextureSetNameOffset(f, r, fr) ==
    IF fr.i >= fr.n
    THEN Out(r, "none", <<[fr EXCEPT !.phase = "names", !.k = 1]>>)
    ELSE Bind(fread(f.b, f.kind, r.pos, 4), LAMBDA got :
         IF Len(got.data) # 4 THEN Out(seek(r, got.pos), "struct.error", <<>>)
         ELSE Out(seek(r, got.pos), "none",
                  <<[fr EXCEPT !.i = NextPass(fr.i),
                               !.offs = Append(@, UnpackU32(got.data,
                                                           NamesTableEndian(r)))]>>))

\* one pass of the loop that reads the names
TextureSetName(f, r, fr) ==
    IF fr.k > Len(fr.offs) THEN Out(seek(r, fr.ret), "none", <<>>)
    ELSE IF fr.offs[fr.k] = 0 THEN Out(r, "none", <<[fr EXCEPT !.k = NextPass(fr.k)]>>)
    ELSE Out(seek(r, read_cstring(f.b, fr.offs[fr.k]).pos), "none",
             <<[fr EXCEPT !.k = NextPass(fr.k)]>>)

TextureSetPass(f, r, fr) ==
    IF fr.phase = "head" THEN TextureSetHead(f, r, fr)
    ELSE IF fr.phase = "offsets" THEN TextureSetOffset(f, r, fr)
    ELSE IF fr.phase = "textures" THEN TextureSetTexture(f, r, fr)
    ELSE IF fr.phase = "texture_read"
    THEN Out(seek(r, fr.cur), "none",
             <<[fr EXCEPT !.phase = "textures", !.k = NextPass(fr.k)]>>)
    ELSE IF fr.phase = "name_offsets" THEN TextureSetNameOffset(f, r, fr)
    ELSE TextureSetName(f, r, fr)

\* SpriteSet.read up to the call of TextureSet.read
SpriteSetHead(f, r, fr) ==
    Then(SpriteSetHeader(f, r), LAMBDA h :
    IF h.val.textures_offset = 0
    THEN Out(h.r, "none", <<[fr EXCEPT !.phase = "sprites_at", !.h = h.val]>>)
    ELSE Out(push_base(seek(h.r, h.val.textures_offset), h.val.textures_offset),
             "none",
             <<[fr EXCEPT !.phase = "texture_set_read", !.h = h.val, !.cur = h.r.pos],
               [Frame("TextureSet.read", "head")
                   EXCEPT !.names = h.val.texture_names_offset]>>))

\* if sprites_offset != 0: up to the loop
SpriteSetSpritesAt(f, r, fr) ==
    IF fr.h.sprites_offset = 0
    THEN Out(r, "none", <<[fr EXCEPT !.phase = "names_at"]>>)
    ELSE IF Len(r.base_stack) = 0 THEN Out(r, "IndexError", <<>>)
    ELSE Out(seek(r, base(r) + fr.h.sprites_offset), "none",
             <<[fr EXCEPT !.phase = "sprites", !.i = 0, !.n = fr.h.sprite_count,
                          !.cur = r.pos]>>)

\* one pass of for _ in range(sprite_count): s.read(r)
SpriteSetSprite(f, r, fr) ==
    IF fr.i >= fr.n
    THEN Out(seek(r, fr.cur), "none", <<[fr EXCEPT !.phase = "names_at", !.count = fr.i]>>)
    ELSE Then(Sprite_read(f, r), LAMBDA sp :
         Out(sp.r, "none", <<[fr EXCEPT !.i = NextPass(fr.i)]>>))

\* if sprite_names_offset != 0: up to the loops
SpriteSetNamesAt(f, r, fr) ==
    IF fr.h.sprite_names_offset = 0 THEN Out(r, "none", <<>>)
    ELSE IF Len(r.base_stack) = 0 THEN Out(r, "IndexError", <<>>)
    ELSE Out(seek(r, base(r) + fr.h.sprite_names_offset), "none",
             <<[fr EXCEPT !.phase = "name_offsets", !.i = 0, !.n = fr.h.sprite_count,
                          !.offs = <<>>, !.ret = r.pos]>>)

\* one pass of the loop that reads the name offsets
SpriteSetNameOffset(f, r, fr) ==
    IF fr.i >= fr.n
    THEN Out(r, "none", <<[fr EXCEPT !.phase = "names", !.k = 1]>>)
    ELSE Then(read_offset(f, r), LAMBDA o :
         Out(o.r, "none", <<[fr EXCEPT !.i = NextPass(fr.i),
                                       !.offs = Append(@, o.val)]>>))

\* one pass of the loop that reads the names onto the sprites
SpriteSetName(f, r, fr) ==
    IF fr.k > Len(fr.offs) THEN Out(seek(r, fr.ret), "none", <<>>)
    ELSE IF fr.offs[fr.k] = 0 THEN Out(r, "none", <<[fr EXCEPT !.k = NextPass(fr.k)]>>)
    ELSE IF fr.k > fr.count
    THEN Out(seek(r, read_cstring(f.b, fr.offs[fr.k]).pos), "IndexError", <<>>)
    ELSE Out(seek(r, read_cstring(f.b, fr.offs[fr.k]).pos), "none",
             <<[fr EXCEPT !.k = NextPass(fr.k)]>>)

SpriteSetPass(f, r, fr) ==
    IF fr.phase = "head" THEN SpriteSetHead(f, r, fr)
    ELSE IF fr.phase = "texture_set_read"
    THEN Out(seek(pop_base(r), fr.cur), "none", <<[fr EXCEPT !.phase = "sprites_at"]>>)
    ELSE IF fr.phase = "sprites_at" THEN SpriteSetSpritesAt(f, r, fr)
    ELSE IF fr.phase = "sprites" THEN SpriteSetSprite(f, r, fr)
    ELSE IF fr.phase = "names_at" THEN SpriteSetNamesAt(f, r, fr)
    ELSE IF fr.phase = "name_offsets" THEN SpriteSetNameOffset(f, r, fr)
    ELSE SpriteSetName(f, r, fr)

\* the read function of the structure named kind
ReadFn(kind) ==
    IF kind = "TextureSet" THEN "TextureSet.read"
    ELSE IF kind = "Texture" THEN "Texture.read"
    ELSE "SubTexture.read"

\* parse_txd up to the read of the root structure or the scan loop
ParseTxdHead(f, r, fr) ==
    Bind(fread(f.b, f.kind, r.pos, 4), LAMBDA raw :
    IF Len(raw.data) < 4 THEN Out(seek(r, raw.pos), "ValueError", <<>>)
    ELSE IF RootKind(raw.data) # "scan"
    THEN Out(RootEndian(r, raw.data, KindSigs(RootKind(raw.data))), "none",
             <<[fr EXCEPT !.phase = "root_read"],
               Frame(ReadFn(RootKind(raw.data)), "head")>>)
    ELSE Out(seek(r, Len(f.b)), "none",
             <<[fr EXCEPT !.phase = "find", !.j = 1, !.i = 0, !.offs = <<>>]>>))

\* all_patterns, in the order the passes take them; the set the code
\* iterates has no order of its own, and sorted(set(hits)) does not depend
\* on it
ScanPatterns ==
    <<PackI32(TXP_TEXSET_SIG, "<"), PackI32(TXP_TEXTURE_SIG_V4, "<"),
      PackI32(TXP_TEXTURE_SIG_V5, "<"), PackI32(TXP_SUBTEXTURE_SIG, "<"),
      PackI32(TXP_TEXSET_SIG, ">"), PackI32(TXP_TEXTURE_SIG_V4, ">"),
      PackI32(TXP_TEXTURE_SIG_V5, ">"), PackI32(TXP_SUBTEXTURE_SIG, ">")>>

\* data.find(pat, start)
Find(b, pat, start) ==
    IF \E p \in start..(Len(b) - 4) : WordAt(b, p) = pat
    THEN CHOOSE p \in start..(Len(b) - 4) :
            /\ WordAt(b, p) = pat
            /\ \A q \in start..(p - 1) : WordAt(b, q) # pat
    ELSE -1

\* one pass of while True: idx = data.find(pat, start), and the step of
\* for pat in all_patterns when it breaks
ParseTxdFind(f, r, fr) ==
    IF fr.j > Len(ScanPatterns)
    THEN IF fr.offs = <<>> THEN Out(r, "ValueError", <<>>)
         ELSE Out(r, "none",
                  <<[fr EXCEPT !.phase = "scan", !.k = 1, !.i = 0, !.j = 0,
                               !.offs = Sorted({fr.offs[x] : x \in DOMAIN fr.offs})]>>)
    ELSE Bind(Find(f.b, ScanPatterns[fr.j], fr.i), LAMBDA idx :
         IF idx = -1
         THEN Out(r, "none", <<[fr EXCEPT !.j = NextPass(fr.j), !.i = 0]>>)
         ELSE Out(r, "none", <<[fr EXCEPT !.offs = Append(@, idx),
                                          !.i = idx + 1]>>))

\* the try block of one pass of the scan loop, the byte order selected: up
\* to the read call of the candidate
ParseTxdDecode(f, r, fr, off) ==
    Bind(read_int32(f, push_base(seek(r, off), off)), LAMBDA sig :
    IF sig.exc # "none" \/ CandidateKind(sig.val) = "none"
    THEN Out(PopQuietly(sig.r), "none", <<[fr EXCEPT !.k = NextPass(fr.k)]>>)
    ELSE Out(seek(sig.r, off), "none",
             <<[fr EXCEPT !.phase = "candidate_read"],
               Frame(ReadFn(CandidateKind(sig.val)), "head")>>))

\* one pass of the scan loop, up to the read call of the candidate
ParseTxdCandidate(f, r, fr) ==
    IF fr.k > Len(fr.offs) THEN Out(r, ScanOutcome(fr.count), <<>>)
    ELSE IF CandidateEndian(r, WordAt(f.b, fr.offs[fr.k])) = "continue"
    THEN Out(PopQuietly(r), "none", <<[fr EXCEPT !.k = NextPass(fr.k)]>>)
    ELSE ParseTxdDecode(f, set_endian(r, CandidateEndian(r, WordAt(f.b, fr.offs[fr.k]))
                                            = "<"),
                        fr, fr.offs[fr.k])

\* the end of a pass of the scan loop whose read call raised caught: the
\* except and finally clauses
ParseTxdCaught(r, fr) ==
    Out(PopQuietly(r), "none", <<[fr EXCEPT !.phase = "scan", !.k = NextPass(fr.k)]>>)

ParseTxdPass(f, r, fr) ==
    IF fr.phase = "head" THEN ParseTxdHead(f, r, fr)
    ELSE IF fr.phase = "root_read" THEN Out(r, "none", <<>>)
    ELSE IF fr.phase = "find" THEN ParseTxdFind(f, r, fr)
    ELSE IF fr.phase = "scan" THEN ParseTxdCandidate(f, r, fr)
    ELSE Out(PopQuietly(r), "none",
             <<[fr EXCEPT !.phase = "scan", !.k = NextPass(fr.k),
                          !.count = fr.count + 1]>>)

\* x, a read of the archive parser, then K; its exception ends the call
FThen(x, r, K(_)) ==
    Bind(x, LAMBDA v : IF v.exc # "none" THEN Out(seek(r, v.pos), v.exc, <<>>) ELSE K(v))

\* _parse_farc up to its loop
FarcFullHead(f, r, fr) ==
    FThen(unpack_BE(f, r.pos), r, LAMBDA flags :
    FThen(unpack_BE(f, flags.pos), r, LAMBDA padding :
    FThen(unpack_BE(f, padding.pos), r, LAMBDA alignment :
    IF is_encrypted(flags.raw) THEN Out(seek(r, alignment.pos), "NotImplementedError", <<>>)
    ELSE
    FThen(unpack_BE(f, alignment.pos), r, LAMBDA entry_padding :
    FThen(unpack_BE(f, entry_padding.pos), r, LAMBDA header_padding :
    Out(seek(r, SkipBytes(f, header_padding.pos, header_padding.val)), "none",
        <<[fr EXCEPT !.m = entry_padding.val, !.flag = FlagBit(flags.raw, 1)]>>))))))

\* _parse_farc_lowercase and _parse_farc_minimal up to their loops
FarcShortHead(f, r, fr) ==
    FThen(unpack_BE(f, r.pos), r, LAMBDA alignment :
    Out(seek(r, alignment.pos), "none", <<fr>>))

\* FarcArchive.parse up to the loop of the entry-table reader
FarcHead(f, r, fr) ==
    Bind(fread(f.b, f.kind, r.pos, 4), LAMBDA tag :
    IF \E k \in 1..Len(tag.data) : tag.data[k] >= 128
    THEN Out(seek(r, tag.pos), "UnicodeDecodeError", <<>>)
    ELSE IF tag.data \notin KnownTags THEN Out(seek(r, tag.pos), "ValueError", <<>>)
    ELSE
    FThen(unpack_BE(f, tag.pos), r, LAMBDA header_size_value :
    IF FarcReaderFor(tag.data) = "_parse_farc"
    THEN FarcFullHead(f, seek(r, header_size_value.pos),
                      [fr EXCEPT !.phase = "entries", !.which = "_parse_farc",
                                 !.n = header_size_value.val + 8])
    ELSE FarcShortHead(f, seek(r, header_size_value.pos),
                       [fr EXCEPT !.phase = "entries",
                                  !.which = FarcReaderFor(tag.data),
                                  !.n = header_size_value.val + 8])))

\* one pass of while f.tell() < self.header_size of the three readers
FarcEntryPass(f, r, fr) ==
    IF ~(r.pos < fr.n) THEN Out(r, "none", <<>>)
    ELSE
    FThen(unpack_BE(f, _read_cstring(f, r.pos).pos), r, LAMBDA offset :
    FThen(unpack_BE(f, offset.pos), r, LAMBDA compressed_size :
    IF fr.which = "_parse_farc_minimal"
    THEN Out(seek(r, compressed_size.pos), "none",
             <<[fr EXCEPT !.count = fr.count + 1]>>)
    ELSE
    FThen(unpack_BE(f, compressed_size.pos), r, LAMBDA uncompressed_size :
    Out(seek(r, IF fr.which = "_parse_farc"
                THEN SkipBytes(f, uncompressed_size.pos, fr.m)
                ELSE uncompressed_size.pos),
        "none", <<[fr EXCEPT !.count = fr.count + 1]>>))))

FarcPass(f, r, fr) ==
    IF fr.phase = "head" THEN FarcHead(f, r, fr) ELSE FarcEntryPass(f, r, fr)

\* the frames after the pass res of the innermost call of stack.  An
\* exception ends every call in progress, except under the scan loop of
\* parse_txd, which catches it and goes on
After(stack, res) ==
    IF res.exc = "none"
    THEN Out(res.r, "none", SubSeq(stack, 1, Len(stack) - 1) \o res.frames)
    ELSE IF Len(stack) > 1 /\ stack[1].fn = "parse_txd"
                           /\ stack[1].phase = "candidate_read"
    THEN ParseTxdCaught(res.r, stack[1])
    ELSE Out(res.r, res.exc, <<>>)

----------------------------------------------------------------------------
(* Input buffers of the parse calls run one pass at a time: well-formed
   files, and files whose counts exceed the buffer or whose offsets point
   at an earlier position *)

\* a count larger than any buffer here
BigCount == 1000

\* a SpriteSet header alone: no TextureSet, sprite_count sprites whose
\* records and name table are said to lie at the given offsets
HeaderOnly(e, sprite_count, sprites_offset, sprite_names_offset) ==
    Words(<<0, 0, 0, sprite_count, sprites_offset, 0, sprite_names_offset, 0>>, e)

PassBuffers ==
    UNION {
      { NamedSet(e),
        SparseSet(e),
        Plain(e, <<TexF(e), TexA(e)>>),
        Cut(Plain(e, <<TexA(e)>>), 62),
        \* tex_count beyond the offset table and the buffer
        FileImage(e, 0, TextureSetImage(e, TXP_TEXSET_SIG, BigCount, <<TexA(e)>>),
                  <<>>, 0, <<>>),
        \* subcount, taken as mip_count, beyond the buffer
        Plain(e, <<TexD(e, BigCount)>>),
        TexD(e, BigCount),
        \* a Texture offset that points into the TextureSet's own header
        Words(<<TXP_TEXSET_SIG, 1, 1, 4>>, e),
        \* a SubTexture offset that points at the Texture that holds it
        Words(<<TXP_TEXTURE_SIG_V4, 1, 257, 4>>, e),
        \* sprite_count beyond the buffer, the records said to start in the header
        HeaderOnly(e, BigCount, 4, 0) \o Bytes(40, 0),
        \* a name table beyond the buffer
        HeaderOnly(e, BigCount, 0, 28),
        \* one sprite read from the header's own words, one name offset that
        \* points back at position 1
        HeaderOnly(e, 1, 4, 12) \o Bytes(12, 0),
        \* no sprite records, a name table that is the header's last words
        HeaderOnly(e, 2, 0, 24),
        \* candidates of the recovery scan
        Bytes(8, 0) \o TexA(e),
        BrokenTexture(e) \o GoodSubTexture(e) \o CutSubTexture(e),
        Bytes(8, 0) \o Words(<<TXP_TEXSET_SIG, BigCount, 0>>, e) }
      : e \in Endians }
    \cup {FarcImage(tag, delta, 0, 0, 0, <<<<NameA, 40, 4, 4>>, <<NameB, 44, 4, 0>>>>) :
            tag \in KnownTags, delta \in {0, -2}}
    \cup {FarcImage(TagFARC, 0, 2, 4, 4, <<<<NameA, 40, 4, 4>>>>),
          FarcImage(TagFARC, 0, 4, 0, 0, <<<<NameA, 40, 4, 4>>>>)}
    \* a header size beyond the buffer, and one of zero
    \cup {tag \o size \o Bytes(4, 0) \o NameA \o <<0>> \o Bytes(13, 1) :
            tag \in KnownTags, size \in {Bytes(4, 255), Bytes(4, 0)}}

PassFiles ==
    {[b |-> b, kind |-> "BufferedReader"] : b \in PassBuffers}

----------------------------------------------------------------------------
(* The state machine of the parse calls run one pass at a time: obj is the
   stack of frames, arg the call that was made *)

InitPass ==
    /\ \E file \in PassFiles : buf = file.b /\ fkind = file.kind
    /\ pos = NewReader.pos
    /\ endian = NewReader.endian
    /\ base_stack = NewReader.base_stack
    /\ op = "init"
    /\ entry = NewReader
    /\ exc = "none"
    /\ obj = <<>>
    /\ arg = "none"
    /\ archive = NewFarcArchive
    /\ scan = NoScan
    /\ export = NoExport

\* a call is made on the Reader r
Begin(r, frame) ==
    /\ op = "init"
    /\ SetReader(r)
    /\ entry' = r
    /\ obj' = <<frame>>
    /\ arg' = frame.fn
    /\ op' = "running"
    /\ UNCHANGED <<buf, fkind, exc, archive, scan, export>>

\* the texture_names_offset a caller passes, for a buffer of any length
PassNames(b) == IF Len(b) >= 24 THEN NamesArgs(b) ELSE {0}

\* st.read(r), tex.read(r), ts.read(r, texture_names_offset) or ss.read(r) on
\* a Reader positioned by the caller
BeginRead ==
    /\ op = "init"
    /\ \E fn \in {"SubTexture.read", "Texture.read", "TextureSet.read", "SpriteSet.read"},
          p \in SeekTargets(buf), little \in BOOLEAN, a \in PassNames(buf) :
        /\ fn # "TextureSet.read" => a = 0
        /\ Begin(seek(set_endian(NewReader, little), p),
                 [Frame(fn, "head") EXCEPT !.names = a])

\* parse_txd(path) on a file on disk
BeginParseTxd ==
    /\ fkind = "BufferedReader"
    /\ Begin(NewReader, Frame("parse_txd", "head"))

\* FarcArchive.from_file(path) on a file on disk
BeginFarc ==
    /\ fkind = "BufferedReader"
    /\ Begin(NewReader, Frame("FarcArchive.parse", "head"))

\* the innermost call in progress
Top == obj[Len(obj)]

\* the innermost call, one of fn, runs the pass that leaves res
Pass(fn, res) ==
    /\ op = "running"
    /\ Top.fn = fn
    /\ \E out \in {res} : \E after \in {After(obj, out)} :
        /\ SetReader(after.r)
        /\ exc' = after.exc
        /\ obj' = after.frames
        /\ op' = IF after.frames = <<>> THEN "returned" ELSE "running"
    /\ UNCHANGED <<buf, fkind, entry, arg, archive, scan, export>>

SubTextureStep == Pass("SubTexture.read", SubTexturePass(F, R, Top))

TextureStep == Pass("Texture.read", TexturePass(F, R, Top))

TextureSetStep == Pass("TextureSet.read", TextureSetPass(F, R, Top))

SpriteSetStep == Pass("SpriteSet.read", SpriteSetPass(F, R, Top))

ParseTxdStep == Pass("parse_txd", ParseTxdPass(F, R, Top))

FarcStep == Pass("FarcArchive.parse", FarcPass(F, R, Top))

NextPasses ==
    \/ BeginRead
    \/ BeginParseTxd
    \/ BeginFarc
    \/ SubTextureStep
    \/ TextureStep
    \/ TextureSetStep
    \/ SpriteSetStep
    \/ ParseTxdStep
    \/ FarcStep

\* a call that was made runs on: the program is sequential and nothing
\* suspends it
SpecPass == InitPass /\ [][NextPasses]_vars /\ WF_vars(NextPasses)

----------------------------------------------------------------------------
(* Properties of the archive parser *)

\* the bytes parse reads as the tag
Tag == SubSeq(buf, 1, Min(4, Len(buf)))

\* the archive as parse hands it to an entry-table reader
Routed(which) ==
    [NewFarcArchive EXCEPT !.signature = Str(Tag),
                           !.header_size = UnpackU32(WordAt(buf, 4), ">") + 8,
                           !.reader = which]

\* what parse left behind
Parsed == [pos |-> pos, exc |-> exc, val |-> archive]

\* C10: FarcArchive.parse routes a buffer that opens with 'FARC' to the Full
\* entry-table reader, 'FArC' to the Legacy reader and 'FArc' to the Minimal
\* reader, as soon as it has read the header-size field that follows the
\* tag; for every other tag it raises an error, reads nothing after the tag
\* and leaves entries empty.
C10_TagDispatch ==
    op = "FarcArchive.parse" =>
        /\ (Tag = TagFARC /\ Len(buf) >= 8) =>
               Parsed = _parse_farc(F, 8, Routed("_parse_farc"))
        /\ (Tag = TagFArC /\ Len(buf) >= 8) =>
               Parsed = _parse_farc_lowercase(F, 8, Routed("_parse_farc_lowercase"))
        /\ (Tag = TagFArc /\ Len(buf) >= 8) =>
               Parsed = _parse_farc_minimal(F, 8, Routed("_parse_farc_minimal"))
        /\ (Tag \in KnownTags /\ Len(buf) < 8) =>
               exc = "struct.error" /\ archive.reader = "none" /\ archive.entries = <<>>
        /\ Tag \notin KnownTags =>
               /\ exc \in {"ValueError", "UnicodeDecodeError"}
               /\ archive.reader = "none"
               /\ archive.entries = <<>>
               /\ pos = Len(Tag)

\* a Legacy archive was read by the Legacy reader: two entries, one of them
\* marked compressed and one with its uncompressed size filled in
C10_Witness ==
    /\ op = "FarcArchive.parse"
    /\ Tag = TagFArC
    /\ exc = "none"
    /\ archive.reader = "_parse_farc_lowercase"
    /\ Len(archive.entries) = 2
    /\ archive.entries[1].is_compressed
    /\ ~archive.entries[2].is_compressed
    /\ archive.entries[2].uncompressed_size = 2

\* the entry table ran to its end: parse returned normally from one of the
\* three entry-table readers
TableRead ==
    /\ op = "FarcArchive.parse"
    /\ Tag \in KnownTags
    /\ exc = "none"

\* C11: in all three archive variants, when entry-table parsing returns
\* normally with entries the file position is exactly the declared boundary,
\* the header-size field plus 8: an entry that runs past the boundary makes
\* parse fail and is never accepted.
C11_TableEndsAtBoundary ==
    (TableRead /\ Len(archive.entries) > 0) => pos = archive.header_size


\* where the k-th entry of a Legacy or Full table without padding starts,
\* the first one starting at p: a name, its NUL, three words
RECURSIVE EntryStart(_, _, _)
EntryStart(b, p, k) ==
    IF k = 1 THEN p ELSE EntryStart(b, FarcCString(b, p, <<>>).pos + 12, k - 1)

\* the word of the k-th Legacy entry stored w words after its name
StoredWord(k, w) ==
    UnpackU32(WordAt(buf, FarcCString(buf, EntryStart(buf, 12, k), <<>>).pos + 4 * w),
              ">")

\* C12: every entry parsed from a Legacy archive whose stored
\* uncompressed_size is 0 has is_compressed false and uncompressed_size equal
\* to compressed_size; every other entry has is_compressed true exactly when
\* its compressed_size differs from its uncompressed_size.
C12_LegacyCompression ==
    (op = "FarcArchive.parse" /\ Tag = TagFArC) =>
        \A k \in 1..Len(archive.entries) :
            /\ archive.entries[k].compressed_size = StoredWord(k, 1)
            /\ IF StoredWord(k, 2) = 0
               THEN /\ ~archive.entries[k].is_compressed
                    /\ archive.entries[k].uncompressed_size =
                           archive.entries[k].compressed_size
               ELSE /\ archive.entries[k].uncompressed_size = StoredWord(k, 2)
                    /\ archive.entries[k].is_compressed <=>
                           (archive.entries[k].compressed_size
                              # archive.entries[k].uncompressed_size)

\* a Legacy archive with an entry stored raw (uncompressed_size 0) followed
\* by a compressed one
C12_Witness ==
    /\ TableRead
    /\ Tag = TagFArC
    /\ Len(archive.entries) = 2
    /\ StoredWord(1, 2) = 0
    /\ archive.entries[1].uncompressed_size = 2
    /\ StoredWord(2, 2) = 8
    /\ archive.entries[2].is_compressed


\* a Full archive whose flags word was read and has the encryption bit set
EncryptedFull ==
    /\ op = "FarcArchive.parse"
    /\ Tag = TagFARC
    /\ Len(buf) >= 12
    /\ FlagBit(WordAt(buf, 8), 2)

\* C13 as stated: on a Full archive whose flags word has the encryption bit
\* (value 4) set, FarcArchive.parse fails with the unsupported-feature error
\* and adds no entry, whatever else the header holds.
C13_EncryptedUnsupported ==
    EncryptedFull => (exc = "NotImplementedError" /\ archive.entries = <<>>)

\* C13, amended: parse raises the unsupported-feature error once it has read
\* the padding and alignment words that follow the flags word, whatever the
\* other flag bits and the rest of the header hold; when the file ends
\* before the end of the alignment word it raises struct.error instead.  In
\* both cases no entry is added and nothing after the alignment word is read.
C13_EncryptedFails ==
    EncryptedFull =>
        /\ archive.entries = <<>>
        /\ pos = Min(Len(buf), 20)
        /\ exc = (IF Len(buf) >= 20 THEN "NotImplementedError" ELSE "struct.error")

\* an archive with the compression and encryption bits set and an entry
\* table of two entries was rejected
C13_Witness ==
    /\ EncryptedFull
    /\ FlagBit(WordAt(buf, 8), 1)
    /\ Len(buf) > UnpackU32(WordAt(buf, 4), ">") + 8
    /\ UnpackU32(WordAt(buf, 4), ">") > 40
    /\ exc = "NotImplementedError"
    /\ archive.entries = <<>>


\* the entry extract_entry_data was called with
Extracted == archive.entries[arg]

\* C14: extract_entry_data never raises; on an entry marked compressed
\* whose payload fails to decompress it returns exactly the compressed_size
\* raw bytes of the file at entry.offset, unmodified; on an entry that is
\* not marked compressed it never attempts a decompression.
C14_FailedDecompressionReturnsRaw ==
    op = "extract_entry_data" =>
        /\ exc = "none"
        /\ (Extracted.is_compressed /\ obj.gzip = "failed") =>
               /\ Len(obj.data) = Extracted.compressed_size
               /\ \A i \in 1..Len(obj.data) : obj.data[i] = buf[Extracted.offset + i]
        /\ ~Extracted.is_compressed => obj.gzip = "skipped"


\* where the k-th entry of a Minimal table starts, the first one starting
\* at p: a name, its NUL, two words
RECURSIVE MinimalStart(_, _, _)
MinimalStart(b, p, k) ==
    IF k = 1 THEN p ELSE MinimalStart(b, FarcCString(b, p, <<>>).pos + 8, k - 1)

\* the name stored in the k-th Minimal entry, and its word w
MinimalName(k) == FarcCString(buf, MinimalStart(buf, 12, k), <<>>).s
MinimalWord(k, w) ==
    UnpackU32(WordAt(buf, FarcCString(buf, MinimalStart(buf, 12, k), <<>>).pos + 4 * w),
              ">")

\* C15: the k-th parsed entry of a Minimal archive is the k-th entry
\* {name, offset, size} of its table, with is_compressed false and
\* compressed_size = uncompressed_size = size, and extract_entry_data
\* returns exactly the size bytes of the file at [offset, offset + size),
\* unmodified.
C15_MinimalExtract ==
    (op \in {"FarcArchive.parse", "extract_entry_data"} /\ Tag = TagFArc) =>
        /\ \A k \in 1..Len(archive.entries) :
              /\ archive.entries[k].name = Str(MinimalName(k))
              /\ archive.entries[k].offset = MinimalWord(k, 0)
              /\ archive.entries[k].compressed_size = MinimalWord(k, 1)
              /\ archive.entries[k].uncompressed_size = MinimalWord(k, 1)
              /\ ~archive.entries[k].is_compressed
        /\ op = "extract_entry_data" =>
              /\ exc = "none"
              /\ Len(obj.data) = MinimalWord(arg, 1)
              /\ \A i \in 1..Len(obj.data) : obj.data[i] = buf[MinimalWord(arg, 0) + i]


----------------------------------------------------------------------------
(* Properties of the read operations of the Reader *)

ReadCalls == {"read_int32", "read_uint32", "read_float", "read_bytes"}

\* C16: a Reader read operation (read_int32, read_uint32, read_float,
\* read_bytes) that asks for more bytes than remain in the buffer fails with
\* the end-of-data error EOFError; none returns a value built from fewer
\* bytes than it asked for.
C16_ShortReadRaises ==
    (op \in ReadCalls /\ Len(buf) - entry.pos < arg) => exc = "EOFError"


----------------------------------------------------------------------------
(* Properties of parse_txd *)

\* the recovery scan is under way or has ended parse_txd
Scanning == op = "parse_txd.scan" \/ (op = "parse_txd" /\ scan.log # <<>>)

\* the first four bytes are a signature in neither byte order
NoRootSignature ==
    /\ Len(buf) >= 4
    /\ \A e \in Endians : UnpackI32(WordAt(buf, 0), e) \notin ValidSigs

\* the byte order in which the four bytes at off are a signature
SigEndian(off) == CHOOSE e \in Endians : UnpackI32(WordAt(buf, off), e) \in ValidSigs

\* the candidate at off read on its own: by a new Reader in the byte order
\* of its signature, positioned at off with off as the base
Alone(off) ==
    ReadKind(F, [pos |-> off, endian |-> SigEndian(off), base_stack |-> <<off>>],
             CandidateKind(UnpackI32(WordAt(buf, off), SigEndian(off))))

\* C17: the recovery scan visits the candidate offsets in ascending order,
\* each once; a decode failure does not stop it, so when parse_txd ends every
\* occurrence of a signature has been attempted; and every candidate is
\* decoded at its own offset, with that offset as the base and in the byte
\* order of its own four signature bytes, with the result it has when read
\* on its own, whatever the earlier candidates left behind.
C17_ScanVisitsEveryCandidate ==
    Scanning =>
        /\ \A j, k \in 1..Len(scan.log) : j < k => scan.log[j].off < scan.log[k].off
        /\ \A j \in 1..Len(scan.log), k \in 1..Len(scan.hits) :
              scan.log[j].off < scan.hits[k]
        /\ {scan.log[k].off : k \in 1..Len(scan.log)}
              \cup {scan.hits[k] : k \in 1..Len(scan.hits)} = Hits(buf, ValidSigs)
        /\ op = "parse_txd" => scan.hits = <<>>
        /\ \A k \in 1..Len(scan.log) :
              /\ scan.log[k].entered.pos = scan.log[k].off
              /\ base(scan.log[k].entered) = scan.log[k].off
              /\ scan.log[k].entered.endian = SigEndian(scan.log[k].off)
              /\ scan.log[k].exc = Alone(scan.log[k].off).exc
              /\ scan.log[k].val = Alone(scan.log[k].off).val

\* a scan of three candidates ended: the first failed, the second was a
\* SubTexture in the other byte order and was read, the third failed
C17_Witness ==
    /\ op = "parse_txd"
    /\ Len(scan.log) = 3
    /\ scan.log[1].exc # "none"
    /\ scan.log[2].exc = "none"
    /\ scan.log[2].val.kind = "SubTexture"
    /\ scan.log[2].entered.endian # scan.log[1].entered.endian
    /\ scan.log[3].exc # "none"
    /\ Len(scan.log[3].entered.base_stack) > 2


\* the offsets at which the buffer holds a well-formed SubTexture: its
\* signature in one byte order, the five header fields, and as many payload
\* bytes as its size field says
WellFormedSubTextures ==
    {p \in Hits(buf, {TXP_SUBTEXTURE_SIG}) :
        /\ p + 24 <= Len(buf)
        /\ UnpackI32(WordAt(buf, p + 20), SigEndian(p)) >= 0
        /\ p + 24 + UnpackI32(WordAt(buf, p + 20), SigEndian(p)) <= Len(buf)}

\* C18: on a buffer whose first four bytes are no signature in either byte
\* order and that holds exactly one well-formed SubTexture, at a nonzero
\* offset, and no signature of a Texture or TextureSet, the scan ends with a
\* success count of 1: the well-formed SubTexture is recovered and every
\* other candidate scanned counts as a failure.
C18_OneSubTextureOneSuccess ==
    (/\ op = "parse_txd"
     /\ NoRootSignature
     /\ Cardinality(WellFormedSubTextures) = 1
     /\ Hits(buf, TextureSigs \cup {TXP_TEXSET_SIG}) = {}) =>
        /\ scan.found_any = 1
        /\ \A k \in 1..Len(scan.log) :
              scan.log[k].exc = "none" <=> scan.log[k].off \in WellFormedSubTextures


\* C19: parse_txd ends in a raised error, never a normal return, on a
\* buffer whose first four bytes are no signature in either byte order when
\* the buffer holds no signature in either byte order anywhere, or when every
\* candidate the scan finds fails to decode.
C19_NothingRecoveredRaises ==
    (/\ op = "parse_txd"
     /\ NoRootSignature
     /\ \A p \in Hits(buf, ValidSigs) : Alone(p).exc # "none") =>
        exc = "ValueError"

\* the scan found two candidates, both failed, and parse_txd raised
C19_Witness ==
    /\ op = "parse_txd"
    /\ NoRootSignature
    /\ Len(scan.log) = 2
    /\ \A k \in 1..2 : scan.log[k].exc = "EOFError"
    /\ exc = "ValueError"

\* no signature anywhere in a buffer of at least four bytes: parse_txd raised
\* without a scan loop
C19_WitnessNoHits ==
    /\ op = "parse_txd"
    /\ NoRootSignature
    /\ Hits(buf, ValidSigs) = {}
    /\ exc = "ValueError"


----------------------------------------------------------------------------
(* Properties of export_sprites_to_png *)

\* export_sprites_to_png has returned after its loops over a SpriteSet
ExportDone == op = "export_sprites_to_png" /\ obj # None

\* the elements of a sequence
Range(seq) == {seq[k] : k \in 1..Len(seq)}

\* the sprites written to a file
Emitted == {e.sprite : e \in Range(export.exported)}

\* the texture of sprite i was decoded to an image
Resolves(i) == Available(export.texture_images, obj.sprites[i].texture_index)

\* the Texture has no base SubTexture or one of an unsupported format
Undecodable(tex) ==
    IF Cell(tex, 0, 0) = None THEN TRUE ELSE Cell(tex, 0, 0).format \notin {6, 9}

\* the texture index of sprite i is out of range or names such a Texture
Unresolved(i) ==
    \/ obj.sprites[i].texture_index >= Len(obj.texture_set.textures)
    \/ Undecodable(obj.texture_set.textures[obj.sprites[i].texture_index + 1])

\* export_sprites_to_png returns normally having handled every sprite, and
\* has skipped each sprite whose texture is out of range or undecodable
SkipsAndGoesOn ==
    /\ exc = "none"
    /\ export.next = Len(obj.sprites) + 1
    /\ \A i \in 1..Len(obj.sprites) : Unresolved(i) => i \in Range(export.skipped)
    /\ Range(export.skipped) = {i \in 1..Len(obj.sprites) : ~Resolves(i)}

\* C20: in export_sprites_to_png a sprite whose texture_index is out of
\* range or whose texture failed to decode is skipped without raising and
\* every later sprite is still processed; the emitted sprites are exactly
\* the sprites whose texture_index resolves to a decoded texture.
C20_EmittedAreTheResolved ==
    ExportDone =>
        /\ SkipsAndGoesOn
        /\ Emitted = {i \in 1..Len(obj.sprites) : Resolves(i)}

\* C20, amended: the skipping is as claimed; the emitted sprites are
\* exactly the sprites whose texture_index resolves to a decoded texture and
\* whose crop and save raised nothing.  A sprite with a NaN or infinite x,
\* y, width or height is among the failed ones.
C20_EmittedAreTheResolvedAndCropped ==
    ExportDone =>
        /\ SkipsAndGoesOn
        /\ Emitted \cup Range(export.failed) = {i \in 1..Len(obj.sprites) : Resolves(i)}
        /\ Emitted \cap Range(export.failed) = {}
        /\ \A i \in 1..Len(obj.sprites) :
              Resolves(i) /\ CropError(obj.sprites[i]) # "none"
                  => i \in Range(export.failed)

\* three sprites: the first skipped, the second failed in its crop, the
\* third emitted
C20_Witness ==
    /\ ExportDone
    /\ Len(obj.sprites) = 3
    /\ export.skipped = <<1>>
    /\ export.failed = <<2>>
    /\ Emitted = {3}
    /\ Unresolved(1)

\* the emitted sprites that had no name, by their place among the emitted
UnnamedEmitted ==
    {k \in 1..Len(export.exported) : Unnamed(obj.sprites[export.exported[k].sprite])}

\* each unnamed emitted sprite is called sprite_<textureIndex>_<ordinal>,
\* the ordinal being the number of sprites emitted before it
DefaultNamesCount ==
    \A k \in UnnamedEmitted :
        export.exported[k].name
            = DefaultName(obj.sprites[export.exported[k].sprite].texture_index, k - 1)

\* C21: within one batch export an unnamed sprite is emitted as
\* sprite_<textureIndex>_<ordinal>, the ordinal being the number of sprites
\* already emitted, and no two emitted sprites, named or not, get the same
\* output name.
C21_OutputNamesDiffer ==
    ExportDone =>
        /\ DefaultNamesCount
        /\ \A k, l \in 1..Len(export.exported) :
              k # l => export.exported[k].name # export.exported[l].name

\* C21, amended: the default name is as claimed, and no two unnamed emitted
\* sprites get the same output name.
C21_DefaultNamesDiffer ==
    ExportDone =>
        /\ DefaultNamesCount
        /\ \A k, l \in UnnamedEmitted :
              k # l => export.exported[k].name # export.exported[l].name

\* a sprite named "cover" and then an unnamed sprite on texture 0 are
\* emitted as "cover" and "sprite_0_1"
C21_Witness ==
    /\ ExportDone
    /\ Len(export.exported) = 2
    /\ obj.sprites[1].name = Str(NameCover)
    /\ Unnamed(obj.sprites[2])
    /\ export.exported[1].name = NameCover
    /\ export.exported[2].name = <<115, 112, 114, 105, 116, 101, 95, 48, 95, 49>>

\* two unnamed sprites on one texture are both emitted
C21_WitnessUnnamed ==
    /\ ExportDone
    /\ UnnamedEmitted = {1, 2}
    /\ obj.sprites[1].texture_index = obj.sprites[2].texture_index

----------------------------------------------------------------------------
(* Properties of crop_from_texture *)

\* crop_from_texture has ended on a present source image
Cropped == op = "crop_from_texture" /\ arg.texture_image # None

\* the result is an image of width x height pixels whose pixel (i, j) is
\* the source's pixel at column x+i and row H-1-(y+j), wherever the source
\* has such a pixel
IsRegion(x, y, width, height) ==
    /\ exc = "none"
    /\ obj # None
    /\ obj.width = width
    /\ obj.height = height
    /\ DOMAIN obj.px = Positions(width, height)
    /\ \A p \in Positions(width, height) :
          <<x + p[1], arg.texture_image.height - 1 - (y + p[2])>>
              \in Positions(arg.texture_image.width, arg.texture_image.height)
          => obj.px[p] = arg.texture_image.px[
                 <<x + p[1], arg.texture_image.height - 1 - (y + p[2])>>]

\* trunc of a float; 0 stands in for the NaN and the infinities, which
\* have none
Trunc(bits) == IF IsFinite(bits) THEN int_of_float(bits) ELSE 0

\* the result is the region the sprite's truncated rectangle names
IsSpriteRegion ==
    IsRegion(Trunc(arg.sprite.x), Trunc(arg.sprite.y),
             Trunc(arg.sprite.width), Trunc(arg.sprite.height))

\* crop_from_texture on an absent image returns None
AbsentGivesNone ==
    op = "crop_from_texture" /\ arg.texture_image = None => exc = "none" /\ obj = None

\* C22: crop_from_texture on a present W x H image returns an image of
\* exactly trunc(width) x trunc(height) pixels whose pixel (i, j) is the
\* pixel at column trunc(x)+i, row trunc(y)+j of the vertically flipped
\* source wherever that lies inside the source; on an absent image it
\* returns None.
C22_CropIsRegion ==
    /\ AbsentGivesNone
    /\ Cropped => IsSpriteRegion

\* x, y, width and height are finite and below 2^28 in size, and width and
\* height do not truncate to a negative number
Croppable(sprite) ==
    /\ CropError(sprite) = "none"
    /\ FloatMagnitude(sprite.x) + FloatMagnitude(sprite.width) < Far
    /\ FloatMagnitude(sprite.y) + FloatMagnitude(sprite.height) < Far
    /\ int_of_float(sprite.width) >= 0
    /\ int_of_float(sprite.height) >= 0

\* C22, amended: as claimed for a sprite whose x, y, width and height are
\* finite and whose width and height do not truncate to a negative number;
\* on a NaN or an infinity crop_from_texture raises and returns no image.
C22_CropIsRegionWhenFinite ==
    /\ AbsentGivesNone
    /\ Cropped /\ Croppable(arg.sprite) => IsSpriteRegion
    /\ Cropped /\ CropError(arg.sprite) # "none"
           => exc = CropError(arg.sprite) /\ obj = None

\* x=10, y=5, width=20, height=15 on a 128x128 image gives a 20x15 image
C22_Witness ==
    /\ Cropped
    /\ arg.texture_image.width = 128
    /\ arg.texture_image.height = 128
    /\ int_of_float(arg.sprite.x) = 10
    /\ int_of_float(arg.sprite.y) = 5
    /\ exc = "none"
    /\ obj.width = 20
    /\ obj.height = 15
    /\ obj.px[<<0, 0>>] = arg.texture_image.px[<<10, 122>>]

\* x=1.5, y=-0.5, width=2.0, height=1.5 on the 3x2 image gives columns 1
\* and 2 of its bottom row
C22_WitnessTruncation ==
    /\ Cropped
    /\ arg.sprite.x = 1069547520
    /\ arg.sprite.y = -1090519040
    /\ arg.sprite.width = 1073741824
    /\ arg.sprite.height = 1069547520
    /\ arg.texture_image.width = 3
    /\ obj # None
    /\ obj.px = [p \in Positions(2, 1) |-> 5 + p[1]]

----------------------------------------------------------------------------
(* Properties of Reader.read_at_offset *)

\* read_at_offset has ended, called on a Reader with a base
ReadAtEnded == op = "read_at_offset" /\ Len(entry.base_stack) > 0

\* C23: read_at_offset with offset zero returns None without calling the
\* decoder and without moving; with a nonzero offset the decoder is called
\* at the top of the base stack plus the offset, and when the call ends the
\* position is the one before the call, whether the decoder returned or
\* raised.
C23_PositionRestored ==
    ReadAtEnded =>
        /\ arg.offset = 0 => exc = "none" /\ obj.val = None /\ obj.at = -1
        /\ arg.offset # 0 => obj.at = base(entry) + arg.offset
        /\ pos = entry.pos

----------------------------------------------------------------------------
(* Termination of the parse calls *)

\* the call that was made has returned or raised
Returned == op = "returned"

\* a call is in progress
Running == op = "running"

\* C24: every parse call terminates on every finite buffer, by normal
\* return or by raising, whatever the offsets, counts and header sizes: a
\* call in progress leads to its return.
C24_ParseTerminates == Running ~> Returned

\* SpriteSet.read has ended, by an EOFError, on a header whose sprite_count
\* is larger than the buffer
C24_Witness ==
    /\ Returned
    /\ arg = "SpriteSet.read"
    /\ entry.pos = 0
    /\ UnpackI32(WordAt(buf, 12), endian) = BigCount
    /\ BigCount > Len(buf)
    /\ exc = "EOFError"

----------------------------------------------------------------------------
(* The name pass of SpriteSet.read *)

\* the frame fr of SpriteSet.read is about to assign the name of a nonzero
\* name-table entry
AssignsName(fr) ==
    /\ fr.fn = "SpriteSet.read"
    /\ fr.phase = "names"
    /\ fr.k <= Len(fr.offs)
    /\ fr.offs[fr.k] # 0

\* C25: SpriteSet.read back-fills names only onto sprites that exist: the
\* name pass assigns the name of the nonzero name-table entry i to the sprite
\* at position i and never addresses a position outside the sprite list, also
\* when sprites_offset is zero while sprite_count is positive.
C25_NamesOntoSprites ==
    \A x \in DOMAIN obj :
        (op = "running" /\ AssignsName(obj[x])) => obj[x].k <= obj[x].count
====
